---- MODULE Spec2Model ----
(***************************************************************************)
(* A model of the style translation subsystem of galileo_vt_styler:        *)
(*   - the editor document StyleWindow (src/src/app/style.rs) driven by    *)
(*     the application tick GalileoApp::update (src/src/app.rs);           *)
(*   - the filter text DSL of the editor (Rule::new / Rule::parse_filter); *)
(*   - the MapTiler -> Galileo converter                                   *)
(*     (src/src/maptiler_style/converter.rs).                              *)
(*                                                                         *)
(* Conventions.                                                            *)
(*   A Rust str / String is a sequence of one-character strings.           *)
(*   Option<T> is a sequence of length 0 (None) or 1 (Some(x)).            *)
(*   A Color / Color32 is the tuple <<r, g, b, a>> of its four bytes.      *)
(***************************************************************************)
EXTENDS Integers, Sequences, FiniteSets, TLC

VARIABLES
    \* ---- StyleWindow (style.rs:21-28)
    is_changed,         \* bool
    last_changed_at,    \* Option<Instant>
    background_color,   \* Color32
    rules,              \* Vec<Rule>
    last_rule_id,       \* u64
    \* ---- GalileoApp (app.rs:21-25) and its environment
    vt_style,           \* the style held by the VectorTileLayer behind the RwLock
    pc,                 \* position inside GalileoApp::update: "idle" | "shown"
    now,                \* the monotonic clock (ms)
    \* ---- history of the run (not program state)
    op,                 \* the user input of the last frame
    before,             \* rules and last_rule_id as the last frame found them
    undo,               \* the frame before the last, when it was a lone MoveUp
    given,              \* ids given to a rule since construction
    given_gen,          \* ids given to a rule since the last load_style / new
    pending,            \* times of the changes not yet reported by is_changed
    due,                \* times of the changes the last frame reported
    \* ---- the pure functions under test
    input,              \* argument of the function applied
    output              \* its result (<<>> before the call)

vars == << is_changed, last_changed_at, background_color, rules, last_rule_id,
           vt_style, pc, now, op, before, undo, given, given_gen, pending, due,
           input, output >>

docVars == << is_changed, last_changed_at, background_color, rules, last_rule_id,
              vt_style, pc, now, op, before, undo, given, given_gen, pending, due >>

funVars == << input, output >>

-----------------------------------------------------------------------------
(* Option<T> *)

None == << >>

Some(x) == << x >>

IsSome(o) == Len(o) = 1

Unwrap(o) == o[1]

\* `e?` in a function that returns an Option
Try(o, F(_)) == IF IsSome(o) THEN F(Unwrap(o)) ELSE None

-----------------------------------------------------------------------------
(* str: the operations of the Rust standard library the program uses *)

\* pat occurs in s at (1-based) position i
MatchAt(s, pat, i) ==
    /\ i >= 1
    /\ i + Len(pat) - 1 <= Len(s)
    /\ \A k \in 1..Len(pat) : s[i + k - 1] = pat[k]

\* str::contains(pat)
Contains(s, pat) == \E i \in 1..(Len(s) + 1) : MatchAt(s, pat, i)

\* position of the leftmost occurrence of pat in s at or after i, 0 if none
RECURSIVE FindFrom(_, _, _)
FindFrom(s, pat, i) ==
    IF i + Len(pat) - 1 > Len(s) THEN 0
    ELSE IF MatchAt(s, pat, i) THEN i
    ELSE FindFrom(s, pat, i + 1)

\* str::split(pat) for a non-empty str pattern, collected: the pieces between the
\* leftmost non-overlapping occurrences of pat ("" splits to one empty piece)
RECURSIVE Split(_, _)
Split(s, pat) ==
    LET i == FindFrom(s, pat, 1) IN
    IF i = 0 THEN << s >>
    ELSE << SubSeq(s, 1, i - 1) >> \o Split(SubSeq(s, i + Len(pat), Len(s)), pat)

\* str::starts_with(pat)
StartsWith(s, pat) == MatchAt(s, pat, 1)

\* str::ends_with(pat)
EndsWith(s, pat) == Len(pat) <= Len(s) /\ MatchAt(s, pat, Len(s) - Len(pat) + 1)

\* char::is_whitespace, on the alphabet of the model
IsWhitespace(c) == c = " "

\* str::trim_matches(set of chars)
RECURSIVE TrimStartMatches(_, _)
TrimStartMatches(s, cs) ==
    IF s # << >> /\ Head(s) \in cs THEN TrimStartMatches(Tail(s), cs) ELSE s

RECURSIVE TrimEndMatches(_, _)
TrimEndMatches(s, cs) ==
    IF s # << >> /\ s[Len(s)] \in cs
    THEN TrimEndMatches(SubSeq(s, 1, Len(s) - 1), cs)
    ELSE s

TrimMatches(s, cs) == TrimEndMatches(TrimStartMatches(s, cs), cs)

\* str::trim
Trim(s) == TrimMatches(s, {" "})

\* Itertools::join / [String]::join(sep)
RECURSIVE Join(_, _)
Join(parts, sep) ==
    IF parts = << >> THEN << >>
    ELSE IF Len(parts) = 1 THEN parts[1]
    ELSE parts[1] \o sep \o Join(Tail(parts), sep)

\* Iterator::map(f).collect() on a Vec
MapTrim(parts) == [k \in 1..Len(parts) |-> Trim(parts[k])]

-----------------------------------------------------------------------------
(* Text literals of the program *)

S_eq == << "=", "=" >>

S_ne == << "!", "=" >>

S_gt == << ">" >>

S_lt == << "<" >>

S_ge == << ">", "=" >>

S_le == << "<", "=" >>

S_in == << "i", "n" >>

S_not_in == << "n", "o", "t", " ", "i", "n" >>

S_exist == << "e", "x", "i", "s", "t" >>

S_not_exist == << "n", "o", "t", " ", "e", "x", "i", "s", "t" >>

S_andand == << "&", "&" >>

S_comma == << "," >>

-----------------------------------------------------------------------------
(* galileo::PropertyFilterOperator (external crate; FilterOperator of the    *)
(* specification, section 3): Eq(v), Ne(v) carry a string, Lt/Le/Gt/Ge a     *)
(* number, In/NotIn a list of strings, Exist/NotExist nothing.               *)

DigitChars == << "0", "1", "2", "3", "4", "5", "6", "7", "8", "9" >>

IsDigit(c) == \E d \in 1..10 : DigitChars[d] = c

DigitVal(c) == (CHOOSE d \in 1..10 : DigitChars[d] = c) - 1

RECURSIVE ParseDigits(_, _)
ParseDigits(s, acc) ==
    IF s = << >> THEN acc ELSE ParseDigits(Tail(s), 10 * acc + DigitVal(Head(s)))

\* str::parse of a number: Some(n) for a non-empty run of decimal digits
ParseNumber(s) ==
    IF s # << >> /\ \A k \in 1..Len(s) : IsDigit(s[k])
    THEN Some(ParseDigits(s, 0))
    ELSE None

\* Display of a number: its decimal digits
RECURSIVE NumberToString(_)
NumberToString(n) ==
    IF n < 10 THEN << DigitChars[n + 1] >>
    ELSE NumberToString(n \div 10) \o << DigitChars[(n % 10) + 1] >>

Comparison(tag, value) ==
    LET n == ParseNumber(value) IN
    IF IsSome(n) THEN Some([tag |-> tag, number |-> Unwrap(n)]) ELSE None

\* PropertyFilterOperator::from_str(operator, value)
from_str(operator, value) ==
    CASE operator = S_eq -> Some([tag |-> "Eq", value |-> value])
      [] operator = S_ne -> Some([tag |-> "Ne", value |-> value])
      [] operator = S_lt -> Comparison("Lt", value)
      [] operator = S_le -> Comparison("Le", value)
      [] operator = S_gt -> Comparison("Gt", value)
      [] operator = S_ge -> Comparison("Ge", value)
      [] operator = S_in -> Some([tag |-> "In", values |-> Split(value, S_comma)])
      [] operator = S_not_in ->
            Some([tag |-> "NotIn", values |-> Split(value, S_comma)])
      [] operator = S_exist -> Some([tag |-> "Exist"])
      [] operator = S_not_exist -> Some([tag |-> "NotExist"])
      [] OTHER -> None

\* PropertyFilterOperator::to_string(): the op_text of section 4.5
to_string(operator) ==
    CASE operator.tag = "Eq" -> S_eq \o << " " >> \o operator.value
      [] operator.tag = "Ne" -> S_ne \o << " " >> \o operator.value
      [] operator.tag = "Lt" -> S_lt \o << " " >> \o NumberToString(operator.number)
      [] operator.tag = "Le" -> S_le \o << " " >> \o NumberToString(operator.number)
      [] operator.tag = "Gt" -> S_gt \o << " " >> \o NumberToString(operator.number)
      [] operator.tag = "Ge" -> S_ge \o << " " >> \o NumberToString(operator.number)
      [] operator.tag = "In" ->
            S_in \o << " ", "[" >> \o Join(operator.values, S_comma) \o << "]" >>
      [] operator.tag = "NotIn" ->
            S_not_in \o << " ", "[" >> \o Join(operator.values, S_comma) \o << "]" >>
      [] operator.tag = "Exist" -> S_exist
      [] operator.tag = "NotExist" -> S_not_exist

-----------------------------------------------------------------------------
(* The filter text DSL of the editor: Rule::parse_filter and the formatting  *)
(* of Rule::new (style.rs)                                                   *)

\* the operator list of parse_filter, in the order the code scans it
operators ==
    << S_eq, S_ne, S_gt, S_lt, S_ge, S_le,
       << " " >> \o S_not_in \o << " " >>,
       << " " >> \o S_in \o << " " >>,
       S_exist, S_not_exist >>

\* index of the first operator of the list that the block contains, 0 if none
RECURSIVE FirstOperator(_, _)
FirstOperator(block, k) ==
    IF k > Len(operators) THEN 0
    ELSE IF Contains(block, operators[k]) THEN k
    ELSE FirstOperator(block, k + 1)

\* the body of the loop over the blocks: "skip" when no operator of the list
\* occurs in the block (the inner loop ends without a match), "fail" on either
\* `return None`, "push" with the PropertyFilter pushed otherwise
ParseBlock(block) ==
    LET k == FirstOperator(block, 1) IN
    IF k = 0 THEN [kind |-> "skip"]
    ELSE
        LET blocks == MapTrim(Split(block, operators[k])) IN
        IF Len(blocks) # 2 THEN [kind |-> "fail"]
        ELSE
            LET operator == Trim(operators[k])
                value == IF operator = S_in \/ operator = S_not_in
                         THEN TrimMatches(Trim(blocks[2]), {"[", "]"})
                         ELSE blocks[2]
                parsed == from_str(operator, value)
            IN  IF ~IsSome(parsed) THEN [kind |-> "fail"]
                ELSE [kind |-> "push",
                      filter |-> [property_name |-> blocks[1],
                                  operator |-> Unwrap(parsed)]]

RECURSIVE ParseBlocks(_, _, _)
ParseBlocks(split, k, properties) ==
    IF k > Len(split)
    THEN (IF properties = << >> THEN None ELSE Some(properties))
    ELSE
        LET r == ParseBlock(split[k]) IN
        IF r.kind = "fail" THEN None
        ELSE IF r.kind = "skip" THEN ParseBlocks(split, k + 1, properties)
        ELSE ParseBlocks(split, k + 1, Append(properties, r.filter))

\* Rule::parse_filter, on the rule's filter text
parse_filter(filter) == ParseBlocks(Split(filter, S_andand), 1, << >>)

\* the filter text Rule::new builds from StyleRule.properties
FormatFilter(properties) ==
    Join([k \in 1..Len(properties) |->
            properties[k].property_name \o << " " >>
                \o to_string(properties[k].operator)],
         << " ", "&", "&", " " >>)

-----------------------------------------------------------------------------
(* The editor's filter text, exercised on its own: an edit rule holding the  *)
(* text `input.filter` is turned into a StyleRule (Rule::get_rule calls      *)
(* parse_filter), and the StyleRule back into an edit rule (Rule::new        *)
(* formats the predicates).                                                  *)

\* bound: number of tokens of a generated block
MaxTokens == 3

FilterTokens ==
    { << "z" >>, << "5" >>, << " " >>, << "j", "k" >>,
      S_eq, S_ne, S_gt, S_lt, S_ge, S_le,
      << " " >> \o S_in \o << " " >>,
      << " " >> \o S_not_in \o << " " >>,
      S_exist, S_not_exist,
      << "[", "b", ",", "t", "]" >> }

RECURSIVE Flatten(_)
Flatten(parts) == IF parts = << >> THEN << >> ELSE Head(parts) \o Flatten(Tail(parts))

RECURSIVE TokenSeqs(_)
TokenSeqs(n) ==
    IF n = 0 THEN { << >> }
    ELSE LET shorter == TokenSeqs(n - 1) IN
         shorter \cup { Append(ts, t) : ts \in { x \in shorter : Len(x) = n - 1 },
                                        t \in FilterTokens }

\* every block of at most MaxTokens tokens
GeneratedBlocks == { Flatten(ts) : ts \in TokenSeqs(MaxTokens) }

T_z_ge_5 == << "z", " ", ">", "=", " ", "5" >>

T_z_le_5 == << "z", " ", "<", "=", " ", "5" >>

T_z_eq_5 == << "z", " ", "=", "=", " ", "5" >>

T_class_street ==
    << "c", "l", "a", "s", "s", " ", "=", "=", " ", "s", "t", "r", "e", "e", "t" >>

T_brunnel_in ==
    << "b", "r", "u", "n", "n", "e", "l", " ", "i", "n", " ", "[",
       "b", "r", "i", "d", "g", "e", ",", "t", "u", "n", "n", "e", "l", "]" >>

T_and == << " ", "&", "&", " " >>

\* the texts of the specification's scenarios (section 8, 3 and 4)
ScenarioTexts ==
    { T_z_ge_5, T_z_le_5, T_class_street \o T_and \o T_brunnel_in }

\* second blocks of a generated conjunction
SecondBlocks ==
    { T_z_eq_5, << "j", "k" >>, << "z", " " >> \o S_exist, T_z_ge_5, << " " >> }

FilterTexts ==
    GeneratedBlocks
      \cup { b1 \o T_and \o b2 : b1 \in GeneratedBlocks, b2 \in SecondBlocks }
      \cup ScenarioTexts

\* a frame without user input
NoFrame ==
    [loaded |-> FALSE, style |-> None, background |-> FALSE, actions |-> << >>,
     add |-> FALSE, numbered |-> {}, fresh |-> {}]

\* the state of the document part while a pure function is exercised
DocAtRest ==
    /\ is_changed = FALSE
    /\ last_changed_at = None
    /\ background_color = << 0, 0, 0, 0 >>
    /\ rules = << >>
    /\ last_rule_id = 0
    /\ vt_style = [rules |-> << >>, background |-> << 0, 0, 0, 0 >>]
    /\ pc = "idle"
    /\ now = 0
    /\ op = NoFrame
    /\ before = [rules |-> << >>, last_rule_id |-> 0,
                 background_color |-> << 0, 0, 0, 0 >>]
    /\ undo = None
    /\ given = {}
    /\ given_gen = {}
    /\ pending = {}
    /\ due = {}

InitFilter ==
    /\ DocAtRest
    /\ input \in { [filter |-> t] : t \in FilterTexts }
    /\ output = [stage |-> "start"]

\* Rule::get_rule, the `properties` of the StyleRule (style.rs:364)
GetRuleProperties ==
    /\ output.stage = "start"
    /\ output' = [stage |-> "parsed", parsed |-> parse_filter(input.filter)]
    /\ UNCHANGED << input, docVars >>

\* Rule::new on the StyleRule just built, the `filter` of the rule (style.rs:263-267)
NewRuleFilter ==
    /\ output.stage = "parsed"
    /\ output' = [stage |-> "formatted",
                  parsed |-> output.parsed,
                  filter |-> FormatFilter(IF IsSome(output.parsed)
                                          THEN Unwrap(output.parsed)
                                          ELSE << >>)]
    /\ UNCHANGED << input, docVars >>

NextFilter == GetRuleProperties \/ NewRuleFilter

SpecFilter == InitFilter /\ [][NextFilter]_vars

-----------------------------------------------------------------------------
(* serde_json::Value.  A number is held in thousandths (milli): 2 is 2000,  *)
(* 0.5 is 500.  Object keys are plain strings.                               *)

JNull == [t |-> "null"]

JStr(s) == [t |-> "string", s |-> s]

JNum(milli) == [t |-> "number", milli |-> milli]

JBool(b) == [t |-> "bool", b |-> b]

JArr(a) == [t |-> "array", a |-> a]

JObj(o) == [t |-> "object", o |-> o]

\* Value::get(key): None unless the value is an object holding the key
Get(value, key) ==
    IF value.t = "object" /\ key \in DOMAIN value.o THEN Some(value.o[key]) ELSE None

\* Value::as_str
as_str(value) == IF value.t = "string" THEN Some(value.s) ELSE None

\* Value::as_array
as_array(value) == IF value.t = "array" THEN Some(value.a) ELSE None

\* Value::as_f64
as_f64(value) == IF value.t = "number" THEN Some(value.milli) ELSE None

\* A call that may panic: [panic |-> TRUE], or its value
Panic == [panic |-> TRUE]

Ok(v) == [panic |-> FALSE, v |-> v]

\* the statements after a call that may panic: the panic unwinds, a value goes on
AndThen(r, F(_)) == IF r.panic THEN Panic ELSE F(r.v)

\* `let v = e;` followed by the statements that use v
With(v, F(_)) == F(v)

\* `e?` in a function that returns an Option and may panic
TryOk(o, F(_)) == IF IsSome(o) THEN F(Unwrap(o)) ELSE Ok(None)

\* Display of a JSON number held in thousandths
FractionDigits(f) ==
    LET d1 == f \div 100
        d2 == (f \div 10) % 10
        d3 == f % 10
    IN  IF d3 # 0 THEN << DigitChars[d1 + 1], DigitChars[d2 + 1], DigitChars[d3 + 1] >>
        ELSE IF d2 # 0 THEN << DigitChars[d1 + 1], DigitChars[d2 + 1] >>
        ELSE << DigitChars[d1 + 1] >>

JsonNumberToString(milli) ==
    IF milli % 1000 = 0 THEN NumberToString(milli \div 1000)
    ELSE NumberToString(milli \div 1000) \o << "." >> \o FractionDigits(milli % 1000)

\* value_to_string (converter.rs:215-226)
RECURSIVE value_to_string(_)
value_to_string(value) ==
    CASE value.t = "string" -> value.s
      [] value.t = "number" -> JsonNumberToString(value.milli)
      [] value.t = "bool" ->
            IF value.b THEN << "t", "r", "u", "e" >> ELSE << "f", "a", "l", "s", "e" >>
      [] value.t = "array" ->
            Join([k \in 1..Len(value.a) |-> value_to_string(value.a[k])], S_comma)
      [] OTHER -> << >>

S_all == << "a", "l", "l" >>

S_bang_in == << "!", "i", "n" >>

S_has == << "h", "a", "s" >>

S_bang_has == << "!", "h", "a", "s" >>

\* the operator aliases of parse_filter_to_rules (converter.rs:162-167)
FilterHead(filter_arr) ==
    LET head == IF IsSome(as_str(filter_arr[1])) THEN Unwrap(as_str(filter_arr[1]))
                ELSE << >>
    IN  CASE head = S_bang_in -> S_not_in
          [] head = S_has -> S_exist
          [] head = S_bang_has -> S_not_exist
          [] OTHER -> head

\* the `value` of a predicate (converter.rs:182-191): indexing filter_arr[2] and
\* slicing filter_arr[2..] panic on an array that is too short
FilterValue(operator, filter_arr) ==
    IF operator = S_in \/ operator = S_not_in
    THEN IF Len(filter_arr) < 2 THEN Panic
         ELSE Ok(Join([k \in 1..(Len(filter_arr) - 2) |->
                          value_to_string(filter_arr[k + 2])], S_comma))
    ELSE IF operator = S_exist \/ operator = S_not_exist THEN Ok(<< >>)
    ELSE IF Len(filter_arr) < 3 THEN Panic
    ELSE Ok(value_to_string(filter_arr[3]))

\* the single predicate of a filter that is not `all` (converter.rs:193-211)
FilterPredicate(operator, value, filter_arr) ==
    LET filter_operator == from_str(operator, value) IN
    IF ~IsSome(filter_operator) THEN Ok(None)
    ELSE IF Len(filter_arr) < 2 THEN Panic
    ELSE
        LET property == IF IsSome(as_str(filter_arr[2]))
                        THEN Unwrap(as_str(filter_arr[2]))
                        ELSE << >>
        IN  IF StartsWith(property, << "$" >>) THEN Ok(None)
            ELSE Ok(Some(<< [property_name |-> property,
                             operator |-> Unwrap(filter_operator)] >>))

\* parse_filter_to_rules (converter.rs:153-212), Ok(Option<Vec<PropertyFilter>>)
\* or Panic
RECURSIVE parse_filter_to_rules(_)
RECURSIVE AllOperands(_, _, _)
AllOperands(filter_arr, k, filters) ==
    IF k > Len(filter_arr) THEN Ok(Some(filters))
    ELSE
        LET sub == parse_filter_to_rules(filter_arr[k]) IN
        IF sub.panic THEN Panic
        ELSE IF IsSome(sub.v) THEN AllOperands(filter_arr, k + 1, filters \o Unwrap(sub.v))
        ELSE AllOperands(filter_arr, k + 1, filters)

parse_filter_to_rules(filter) ==
    IF ~IsSome(as_array(filter)) THEN Ok(None)
    ELSE
        LET filter_arr == Unwrap(as_array(filter)) IN
        IF filter_arr = << >> THEN Ok(None)
        ELSE
            LET operator == FilterHead(filter_arr) IN
            IF operator = S_all THEN AllOperands(filter_arr, 2, << >>)
            ELSE
                LET value == FilterValue(operator, filter_arr) IN
                IF value.panic THEN Panic
                ELSE FilterPredicate(operator, value.v, filter_arr)

-----------------------------------------------------------------------------
(* Colours: parse_color and its helpers (converter.rs:385-560).              *)
(* f64 values are held in thousandths; hue, saturation and lightness are     *)
(* computed exactly on whole degrees and whole percents.                     *)

\* characters of the model's alphabet whose UTF-8 encoding takes two bytes
TwoByteChars == { "é" }

Utf8Len(c) == IF c \in TwoByteChars THEN 2 ELSE 1

\* str::len(): the length in bytes
RECURSIVE ByteLen(_)
ByteLen(s) == IF s = << >> THEN 0 ELSE Utf8Len(Head(s)) + ByteLen(Tail(s))

\* &s[from..to] on byte offsets: panics unless both are char boundaries
SliceBytes(s, from, to) ==
    IF \E i, j \in 0..Len(s) :
          /\ i <= j
          /\ ByteLen(SubSeq(s, 1, i)) = from
          /\ ByteLen(SubSeq(s, 1, j)) = to
    THEN LET i == CHOOSE i \in 0..Len(s) : ByteLen(SubSeq(s, 1, i)) = from
             j == CHOOSE j \in 0..Len(s) : ByteLen(SubSeq(s, 1, j)) = to
         IN  Ok(SubSeq(s, i + 1, j))
    ELSE Panic

HexChars ==
    << "0", "1", "2", "3", "4", "5", "6", "7", "8", "9",
       "a", "b", "c", "d", "e", "f", "A", "B", "C", "D", "E", "F" >>

IsHexDigit(c) == \E d \in 1..22 : HexChars[d] = c

HexVal(c) ==
    LET d == CHOOSE d \in 1..22 : HexChars[d] = c IN
    IF d <= 16 THEN d - 1 ELSE d - 7

RECURSIVE ParseHexDigits(_, _)
ParseHexDigits(s, acc) ==
    IF s = << >> THEN acc ELSE ParseHexDigits(Tail(s), 16 * acc + HexVal(Head(s)))

\* u8::from_str_radix(s, 16): an optional `+`, then hex digits, at most 255
from_str_radix16(s) ==
    LET digits == IF s # << >> /\ Head(s) = "+" THEN Tail(s) ELSE s IN
    IF /\ digits # << >>
       /\ \A k \in 1..Len(digits) : IsHexDigit(digits[k])
       /\ Len(TrimStartMatches(digits, {"0"})) <= 2
    THEN Some(ParseHexDigits(digits, 0))
    ELSE None

\* str::parse::<u8>(): an optional `+`, then decimal digits, at most 255
ParseU8(s) ==
    LET digits == IF s # << >> /\ Head(s) = "+" THEN Tail(s) ELSE s
        n == ParseNumber(TrimStartMatches(digits, {"0"}))
    IN  IF digits = << >> \/ \E k \in 1..Len(digits) : ~IsDigit(digits[k]) THEN None
        ELSE IF TrimStartMatches(digits, {"0"}) = << >> THEN Some(0)
        ELSE IF Len(TrimStartMatches(digits, {"0"})) <= 3 /\ Unwrap(n) <= 255 THEN n
        ELSE None

\* the first three digits after the point, in thousandths
FractionMilli(frac) ==
    LET d(k) == IF k <= Len(frac) THEN DigitVal(frac[k]) ELSE 0 IN
    100 * d(1) + 10 * d(2) + d(3)

\* str::parse::<f64>() on decimal notation: [+-] digits [. digits], in thousandths
ParseF64(s) ==
    LET negative == s # << >> /\ Head(s) = "-"
        unsigned == IF s # << >> /\ Head(s) \in {"+", "-"} THEN Tail(s) ELSE s
        parts == Split(unsigned, << "." >>)
        whole == parts[1]
        frac == IF Len(parts) = 2 THEN parts[2] ELSE << >>
        allDigits(x) == \A k \in 1..Len(x) : IsDigit(x[k])
    IN  IF /\ Len(parts) <= 2
           /\ allDigits(whole) /\ allDigits(frac)
           /\ whole \o frac # << >>
        THEN LET m == 1000 * ParseDigits(whole, 0) + FractionMilli(frac) IN
             Some(IF negative THEN 0 - m ELSE m)
        ELSE None

\* `x as u8` of a float given as num / den (den > 0): truncated, saturating
TruncU8(num, den) ==
    IF num <= 0 THEN 0
    ELSE IF num \div den > 255 THEN 255
    ELSE num \div den

\* `x.round() as u8` of a float given as num / den (den > 0): half away from zero
RoundU8(num, den) ==
    IF num <= 0 THEN 0
    ELSE IF (2 * num + den) \div (2 * den) > 255 THEN 255
    ELSE (2 * num + den) \div (2 * den)

\* hue_to_rgb (converter.rs:537-554): p = pn / 10000, q = qn / 10000,
\* t = tn / 1080; the result is a numerator over 1800000
hue_to_rgb(pn, qn, tn0) ==
    LET t1 == IF tn0 < 0 THEN tn0 + 1080 ELSE tn0
        tn == IF t1 > 1080 THEN t1 - 1080 ELSE t1
    IN  IF tn < 180 THEN pn * 180 + (qn - pn) * tn
        ELSE IF tn < 540 THEN qn * 180
        ELSE IF tn < 720 THEN pn * 180 + (qn - pn) * (720 - tn)
        ELSE pn * 180

\* hsl_to_rgb (converter.rs:505-535): h in degrees, s and l in percent
hsl_to_rgb(h, s, l) ==
    IF s = 0
    THEN << RoundU8(l * 255, 100), RoundU8(l * 255, 100), RoundU8(l * 255, 100), 255 >>
    ELSE
        LET qn == IF l < 50 THEN l * (100 + s) ELSE (l + s) * 100 - l * s
            pn == 2 * l * 100 - qn
            r == hue_to_rgb(pn, qn, 3 * h + 360)
            g == hue_to_rgb(pn, qn, 3 * h)
            b == hue_to_rgb(pn, qn, 3 * h - 360)
        IN  << RoundU8(r * 17, 120000), RoundU8(g * 17, 120000),
               RoundU8(b * 17, 120000), 255 >>

\* str::strip_prefix
strip_prefix(s, pat) ==
    IF StartsWith(s, pat) THEN Some(SubSeq(s, Len(pat) + 1, Len(s))) ELSE None

\* str::strip_suffix
strip_suffix(s, pat) ==
    IF EndsWith(s, pat) THEN Some(SubSeq(s, 1, Len(s) - Len(pat))) ELSE None

\* the text between `name(` and `)`, split on `,` and trimmed
ColorParts(color_str, prefix) ==
    Try(strip_prefix(color_str, prefix), LAMBDA a :
    Try(strip_suffix(a, << ")" >>), LAMBDA b :
    Some(MapTrim(Split(b, S_comma)))))

\* one channel of a hex colour without the `.repeat(2)` of the #RGB form
HexChannelSingle(hex, from, to, repeat) ==
    AndThen(SliceBytes(hex, from, to), LAMBDA slice : Ok(from_str_radix16(slice)))

\* one channel of a hex colour: the slice (which may panic), then from_str_radix
HexChannel(hex, from, to, repeat) ==
    AndThen(SliceBytes(hex, from, to), LAMBDA slice :
    Ok(from_str_radix16(IF repeat THEN slice \o slice ELSE slice)))

\* parse_hex_color (converter.rs:417-435)
parse_hex_color(hex0) ==
    With(Trim(hex0), LAMBDA hex :
    IF ByteLen(hex) # 3 /\ ByteLen(hex) # 6 THEN Ok(None)
    ELSE
        LET w == IF ByteLen(hex) = 3 THEN 1 ELSE 2 IN
        AndThen(HexChannel(hex, 0, w, w = 1), LAMBDA r0 :
        TryOk(r0, LAMBDA r :
        AndThen(HexChannel(hex, w, 2 * w, w = 1), LAMBDA g0 :
        TryOk(g0, LAMBDA g :
        AndThen(HexChannel(hex, 2 * w, 3 * w, w = 1), LAMBDA b0 :
        TryOk(b0, LAMBDA b :
        Ok(Some(<< r, g, b, 255 >>)))))))))

\* `parts[k].strip_suffix('%')?.parse::<f64>().ok()?`
ParsePercent(part) ==
    Try(strip_suffix(part, << "%" >>), LAMBDA number : ParseF64(number))

\* parse_hsl_color (converter.rs:438-451)
parse_hsl_color(color_str) ==
    Try(ColorParts(color_str, << "h", "s", "l", "(" >>), LAMBDA parts :
    IF Len(parts) # 3 THEN None
    ELSE
        Try(ParseF64(parts[1]), LAMBDA h :
        Try(ParsePercent(parts[2]), LAMBDA s :
        Try(ParsePercent(parts[3]), LAMBDA l :
        Some(hsl_to_rgb(h \div 1000, s \div 1000, l \div 1000))))))

\* parse_hsla_color (converter.rs:454-469)
parse_hsla_color(color_str) ==
    Try(ColorParts(color_str, << "h", "s", "l", "a", "(" >>), LAMBDA parts :
    IF Len(parts) # 4 THEN None
    ELSE
        Try(ParseF64(parts[1]), LAMBDA h :
        Try(ParsePercent(parts[2]), LAMBDA s :
        Try(ParsePercent(parts[3]), LAMBDA l :
        Try(ParseF64(parts[4]), LAMBDA a :
        With(hsl_to_rgb(h \div 1000, s \div 1000, l \div 1000), LAMBDA rgb :
        Some(<< rgb[1], rgb[2], rgb[3], TruncU8(a * 255, 1000) >>)))))))

\* parse_rgb_color (converter.rs:472-485)
parse_rgb_color(color_str) ==
    Try(ColorParts(color_str, << "r", "g", "b", "(" >>), LAMBDA parts :
    IF Len(parts) # 3 THEN None
    ELSE
        Try(ParseU8(parts[1]), LAMBDA r :
        Try(ParseU8(parts[2]), LAMBDA g :
        Try(ParseU8(parts[3]), LAMBDA b :
        Some(<< r, g, b, 255 >>)))))

\* parse_rgba_color (converter.rs:488-502)
parse_rgba_color(color_str) ==
    Try(ColorParts(color_str, << "r", "g", "b", "a", "(" >>), LAMBDA parts :
    IF Len(parts) # 4 THEN None
    ELSE
        Try(ParseU8(parts[1]), LAMBDA r :
        Try(ParseU8(parts[2]), LAMBDA g :
        Try(ParseU8(parts[3]), LAMBDA b :
        Try(ParseF64(parts[4]), LAMBDA a :
        Some(<< r, g, b, TruncU8(a * 255, 1000) >>))))))

\* parse_color (converter.rs:385-414): Ok(Option<Color>) or Panic
parse_color(color_str0) ==
    With(Trim(color_str0), LAMBDA color_str :
    IF IsSome(strip_prefix(color_str, << "#" >>))
    THEN parse_hex_color(Unwrap(strip_prefix(color_str, << "#" >>)))
    ELSE IF StartsWith(color_str, << "h", "s", "l", "(" >>)
    THEN Ok(parse_hsl_color(color_str))
    ELSE IF StartsWith(color_str, << "h", "s", "l", "a", "(" >>)
    THEN Ok(parse_hsla_color(color_str))
    ELSE IF StartsWith(color_str, << "r", "g", "b", "(" >>)
    THEN Ok(parse_rgb_color(color_str))
    ELSE IF StartsWith(color_str, << "r", "g", "b", "a", "(" >>)
    THEN Ok(parse_rgba_color(color_str))
    ELSE Ok(None))

\* apply_opacity (converter.rs:557-560): opacity in thousandths
apply_opacity(color, opacity) ==
    << color[1], color[2], color[3], RoundU8(opacity * 255, 1000) >>

-----------------------------------------------------------------------------
(* The converter (converter.rs:94-382, 563-577)                              *)

\* `steps_arr[0].as_array()?[1]`: Ok(Option<Value>) or Panic; indexing an empty
\* `stops` array, or a stop with fewer than two elements, panics
FirstStopValue(obj) ==
    LET steps == Get(obj, "stops") IN
    IF ~IsSome(steps) THEN Ok(None)
    ELSE IF ~IsSome(as_array(Unwrap(steps))) THEN Ok(None)
    ELSE
        LET steps_arr == Unwrap(as_array(Unwrap(steps))) IN
        IF steps_arr = << >> THEN Panic
        ELSE IF ~IsSome(as_array(steps_arr[1])) THEN Ok(None)
        ELSE IF Len(Unwrap(as_array(steps_arr[1]))) < 2 THEN Panic
        ELSE Ok(Some(Unwrap(as_array(steps_arr[1]))[2]))

\* extract_color (converter.rs:337-352): Ok(Option<Color>) or Panic
extract_color(paint, property) ==
    LET value == Get(paint, property) IN
    IF ~IsSome(value) THEN Ok(None)
    ELSE IF Unwrap(value).t = "string" THEN parse_color(Unwrap(value).s)
    ELSE IF Unwrap(value).t = "object"
    THEN LET stop == FirstStopValue(Unwrap(value)) IN
         IF stop.panic THEN Panic
         ELSE IF ~IsSome(stop.v) THEN Ok(None)
         ELSE IF ~IsSome(as_str(Unwrap(stop.v))) THEN Ok(None)
         ELSE parse_color(Unwrap(as_str(Unwrap(stop.v))))
    ELSE Ok(None)

S_interpolate == << "i", "n", "t", "e", "r", "p", "o", "l", "a", "t", "e" >>

\* extract_number (converter.rs:355-382): Ok(Option<f64>) or Panic
extract_number(paint, property) ==
    LET value == Get(paint, property) IN
    IF ~IsSome(value) THEN Ok(None)
    ELSE IF Unwrap(value).t = "array"
    THEN LET values == Unwrap(value).a IN
         IF values = << >> THEN Ok(None)
         ELSE IF ~IsSome(as_str(values[1])) THEN Ok(None)
         ELSE IF Unwrap(as_str(values[1])) = S_interpolate /\ Len(values) > 4
         THEN Ok(as_f64(values[5]))
         ELSE Ok(None)
    ELSE IF Unwrap(value).t = "object"
    THEN LET stop == FirstStopValue(Unwrap(value)) IN
         IF stop.panic THEN Panic
         ELSE IF ~IsSome(stop.v) THEN Ok(None)
         ELSE Ok(as_f64(Unwrap(stop.v)))
    ELSE IF Unwrap(value).t = "number" THEN Ok(as_f64(Unwrap(value)))
    ELSE Ok(None)

SymbolNone == [kind |-> "None"]

BLACK == << 0, 0, 0, 255 >>

\* Option::unwrap_or on the result of a call that did not panic
UnwrapOr(o, default) == IF IsSome(o) THEN Unwrap(o) ELSE default

\* extract_polygon_symbol (converter.rs:229-245): Ok(VectorTileSymbol) or Panic
extract_polygon_symbol(paint) ==
    IF ~IsSome(paint) THEN Ok(SymbolNone)
    ELSE
        AndThen(extract_color(Unwrap(paint), "fill-color"), LAMBDA color :
        IF ~IsSome(color) THEN Ok(SymbolNone)
        ELSE
            AndThen(extract_number(Unwrap(paint), "fill-opacity"), LAMBDA opacity :
            Ok([kind |-> "Polygon",
                fill_color |-> apply_opacity(Unwrap(color), UnwrapOr(opacity, 1000))])))

\* extract_line_symbol (converter.rs:248-266): Ok(VectorTileSymbol) or Panic
extract_line_symbol(paint) ==
    IF ~IsSome(paint) THEN Ok(SymbolNone)
    ELSE
        AndThen(extract_color(Unwrap(paint), "line-color"), LAMBDA color :
        AndThen(extract_number(Unwrap(paint), "line-width"), LAMBDA width :
        AndThen(extract_number(Unwrap(paint), "line-opacity"), LAMBDA opacity :
        Ok([kind |-> "Line",
            width |-> UnwrapOr(width, 1000),
            stroke_color |-> apply_opacity(UnwrapOr(color, BLACK),
                                           UnwrapOr(opacity, 1000))]))))

\* the font list of the converter's labels (converter.rs:316-323)
ConverterFonts ==
    << "Noto Sans", "Noto Sans Arabic", "Noto Sans Hebrew", "Noto Sans SC",
       "Noto Sans KR", "Noto Sans JP" >>

\* extract_point_symbol (converter.rs:269-334): Ok(Option<VectorTileSymbol>) or Panic
extract_point_symbol(paint, layout) ==
    IF ~IsSome(paint) \/ ~IsSome(layout) THEN Ok(None)
    ELSE
        TryOk(Get(Unwrap(layout), "text-field"), LAMBDA text_field :
        TryOk(as_str(text_field), LAMBDA pattern :
        AndThen(extract_number(Unwrap(layout), "text-size"), LAMBDA size0 :
        TryOk(size0, LAMBDA font_size :
        AndThen(extract_color(Unwrap(paint), "text-color"), LAMBDA color0 :
        TryOk(color0, LAMBDA font_color :
        AndThen(extract_number(Unwrap(paint), "text-halo-width"), LAMBDA width0 :
        TryOk(width0, LAMBDA outline_width :
        AndThen(extract_color(Unwrap(paint), "text-halo-color"), LAMBDA halo0 :
        TryOk(halo0, LAMBDA outline_color :
        Ok(Some([kind |-> "Label",
                 pattern |-> pattern,
                 text_style |->
                   [font_family |-> ConverterFonts,
                    font_size |-> font_size,
                    font_color |-> font_color,
                    weight |-> "BOLD",
                    outline_width |-> outline_width * 2,
                    outline_color |-> outline_color]]))))))))))))

\* the `match layer.layer_type` with the polygon symbol for every other kind
LayerSymbolOfAnyKind(layer) ==
    CASE layer.layer_type = "Line" ->
            AndThen(extract_line_symbol(layer.paint), LAMBDA symbol :
            Ok(Some(symbol)))
      [] layer.layer_type \in {"Circle", "Symbol"} ->
            extract_point_symbol(layer.paint, layer.layout)
      [] OTHER ->
            AndThen(extract_polygon_symbol(layer.paint), LAMBDA symbol :
            Ok(Some(symbol)))

\* the `match layer.layer_type` of convert_layer (converter.rs:114-128)
LayerSymbol(layer) ==
    CASE layer.layer_type \in {"Fill", "FillExtrusion"} ->
            AndThen(extract_polygon_symbol(layer.paint), LAMBDA symbol :
            Ok(Some(symbol)))
      [] layer.layer_type = "Line" ->
            AndThen(extract_line_symbol(layer.paint), LAMBDA symbol :
            Ok(Some(symbol)))
      [] layer.layer_type \in {"Circle", "Symbol"} ->
            extract_point_symbol(layer.paint, layer.layout)
      [] OTHER -> Ok(None)

\* `layer.filter.as_ref().map(parse_filter_to_rules)`, then `?` in the rule:
\* Ok(Option<Vec<PropertyFilter>>) or Panic
LayerFilters(layer) ==
    IF IsSome(layer.filter) THEN parse_filter_to_rules(Unwrap(layer.filter))
    ELSE Ok(Some(<< >>))

\* convert_layer (converter.rs:110-150): Ok(Option<StyleRule>) or Panic
convert_layer(layer) ==
    TryOk(layer.source_layer, LAMBDA layer_name :
    AndThen(LayerSymbol(layer), LAMBDA symbol0 :
    TryOk(symbol0, LAMBDA symbol :
    IF symbol = SymbolNone THEN Ok(None)
    ELSE
        AndThen(LayerFilters(layer), LAMBDA filters0 :
        TryOk(filters0, LAMBDA galileo_filters :
        Ok(Some([layer_name |-> Some(layer_name),
                 properties |-> galileo_filters,
                 symbol |-> symbol])))))))

\* the loop pushing each rule in front of the earlier ones
RECURSIVE ConvertLayersReversed(_, _, _)
ConvertLayersReversed(layers, k, emitted) ==
    IF k > Len(layers) THEN Ok(emitted)
    ELSE
        AndThen(convert_layer(layers[k]), LAMBDA layer_rules :
        ConvertLayersReversed(layers, k + 1, layer_rules \o emitted))

\* the loop of convert_maptiler_to_galileo (converter.rs:95-101)
RECURSIVE ConvertLayers(_, _, _)
ConvertLayers(layers, k, emitted) ==
    IF k > Len(layers) THEN Ok(emitted)
    ELSE
        AndThen(convert_layer(layers[k]), LAMBDA layer_rules :
        ConvertLayers(layers, k + 1, emitted \o layer_rules))

\* the loop taking the paint of the first background layer, resolvable or not
RECURSIVE BackgroundFromFirstLayer(_, _)
BackgroundFromFirstLayer(layers, k) ==
    IF k > Len(layers) THEN Ok(<< 240, 240, 240, 255 >>)
    ELSE IF layers[k].layer_type = "Background" /\ IsSome(layers[k].paint)
    THEN AndThen(extract_color(Unwrap(layers[k].paint), "background-color"),
                 LAMBDA color :
                 Ok(UnwrapOr(color, << 240, 240, 240, 255 >>)))
    ELSE BackgroundFromFirstLayer(layers, k + 1)

\* extract_background_color (converter.rs:563-577): Ok(Color) or Panic
RECURSIVE BackgroundFrom(_, _)
BackgroundFrom(layers, k) ==
    IF k > Len(layers) THEN Ok(<< 240, 240, 240, 255 >>)
    ELSE IF layers[k].layer_type = "Background" /\ IsSome(layers[k].paint)
    THEN AndThen(extract_color(Unwrap(layers[k].paint), "background-color"),
                 LAMBDA color :
                 IF IsSome(color) THEN Ok(Unwrap(color))
                 ELSE BackgroundFrom(layers, k + 1))
    ELSE BackgroundFrom(layers, k + 1)

extract_background_color(style) == BackgroundFrom(style.layers, 1)

\* convert_maptiler_to_galileo (converter.rs:94-107): Ok(VectorTileStyle) or Panic
convert_maptiler_to_galileo(maptiler_style) ==
    AndThen(ConvertLayers(maptiler_style.layers, 1, << >>), LAMBDA emitted :
    AndThen(extract_background_color(maptiler_style), LAMBDA background :
    Ok([rules |-> emitted, background |-> background])))

-----------------------------------------------------------------------------
(* The stylesheets the converter is exercised on *)

\* bound: number of layers of a stylesheet
MaxLayers == 2

F_eq == JArr(<< JStr(S_eq), JStr(<< "c", "l", "a", "s", "s" >>), JStr(<< "s", "t", "r", "e", "e", "t" >>) >>)

F_in == JArr(<< JStr(S_in), JStr(<< "b", "r", "u", "n", "n", "e", "l" >>), JStr(<< "b", "r", "i", "d", "g", "e" >>), JStr(<< "t", "u", "n", "n", "e", "l" >>) >>)

F_all == JArr(<< JStr(S_all), F_eq, F_in >>)

F_any2 == JArr(<< JStr(<< "a", "n", "y" >>), JArr(<< JStr(S_eq), JStr(<< "a" >>), JStr(<< "b" >>) >>) >>)

F_any3 == JArr(<< JStr(<< "a", "n", "y" >>), F_eq, F_in >>)

F_string == JStr(<< "c", "l", "a", "s", "s" >>)

F_type == JArr(<< JStr(S_eq), JStr(<< "$", "t", "y", "p", "e" >>), JStr(<< "P", "o", "l", "y", "g", "o", "n" >>) >>)

F_all_type == JArr(<< JStr(S_all), F_type, F_eq >>)

F_all_any == JArr(<< JStr(S_all), F_any3, F_eq >>)

F_has == JArr(<< JStr(S_has), JStr(<< "n", "a", "m", "e" >>) >>)

F_ge == JArr(<< JStr(S_ge), JStr(<< "r", "a", "n", "k" >>), JNum(5000) >>)

F_eq_short == JArr(<< JStr(S_eq) >>)

F_in_short == JArr(<< JStr(S_in) >>)

F_number_property == JArr(<< JStr(S_eq), JNum(5000), JStr(<< "s", "t", "r", "e", "e", "t" >>) >>)

F_all_nested == JArr(<< JStr(S_all), F_has, JArr(<< JStr(S_all), F_eq, F_any3, F_in >>), F_ge >>)

F_all_none == JArr(<< JStr(S_all), F_any3, F_string, F_type >>)

F_all_empty == JArr(<< JStr(S_all) >>)

F_all_short == JArr(<< JStr(S_all), F_eq, F_eq_short >>)

Filters ==
    { F_eq, F_in, F_all, F_any2, F_any3, F_string, F_type, F_all_type, F_all_any,
      F_has, F_ge, F_eq_short, F_in_short, F_number_property,
      F_all_nested, F_all_none, F_all_empty, F_all_short }

P_plain ==
    JObj(("fill-color" :> JStr(<< "#", "a", "b", "c" >>)) @@ ("line-color" :> JStr(<< "#", "a", "b", "c" >>))
           @@ ("line-width" :> JNum(2000))
           @@ ("text-color" :> JStr(<< "r", "g", "b", "(", "1", ",", "2", ",", "3", ")" >>)) @@ ("text-halo-width" :> JNum(1500))
           @@ ("text-halo-color" :> JStr(<< "#", "f", "f", "f", "f", "f", "f" >>))
           @@ ("background-color" :> JStr(<< "h", "s", "l", "(", "4", "7", ",", "7", "9", "%", ",", "9", "4", "%", ")" >>)))

P_stops ==
    JObj(("fill-color" :> JObj("stops" :> JArr(<< JArr(<< JNum(5000), JStr(<< "#", "f", "0", "0" >>) >>),
                                                   JArr(<< JNum(9000), JStr(<< "#", "0", "0", "f" >>) >>) >>)))
           @@ ("line-width" :> JObj("stops" :> JArr(<< JArr(<< JNum(5000), JNum(1000) >>),
                                                        JArr(<< JNum(9000), JNum(3000) >>) >>)))
           @@ ("line-opacity" :> JNum(500)))

P_interpolate ==
    JObj(("line-color" :> JStr(<< "r", "g", "b", "a", "(", "1", "0", ",", "2", "0", ",", "3", "0", ",", "0", ".", "5", ")" >>))
           @@ ("line-width" :> JArr(<< JStr(S_interpolate), JArr(<< JStr(<< "l", "i", "n", "e", "a", "r" >>) >>),
                                       JArr(<< JStr(<< "z", "o", "o", "m" >>) >>), JNum(5000), JNum(1000),
                                       JNum(9000), JNum(3000) >>)))

P_empty_stops ==
    JObj(("fill-color" :> JObj("stops" :> JArr(<< >>)))
           @@ ("line-color" :> JObj("stops" :> JArr(<< >>))))

P_interpolate_color ==
    JObj(("fill-color" :> JArr(<< JStr(S_interpolate), JArr(<< JStr(<< "l", "i", "n", "e", "a", "r" >>) >>),
                                  JArr(<< JStr(<< "z", "o", "o", "m" >>) >>), JNum(5000),
                                  JStr(<< "#", "f", "0", "0" >>), JNum(9000), JStr(<< "#", "0", "0", "f" >>) >>))
           @@ ("line-color" :> JArr(<< JStr(S_interpolate), JArr(<< JStr(<< "l", "i", "n", "e", "a", "r" >>) >>),
                                       JArr(<< JStr(<< "z", "o", "o", "m" >>) >>), JNum(5000),
                                       JStr(<< "#", "f", "0", "0" >>), JNum(9000), JStr(<< "#", "0", "0", "f" >>) >>))
           @@ ("line-width" :> JArr(<< JStr(S_interpolate), JArr(<< JStr(<< "l", "i", "n", "e", "a", "r" >>) >>),
                                       JArr(<< JStr(<< "z", "o", "o", "m" >>) >>), JNum(5000) >>)))

P_bad_color == JObj(("fill-color" :> JStr(<< "r", "e", "d" >>)) @@ ("line-color" :> JStr(<< "r", "e", "d" >>)))

P_two_byte == JObj(("fill-color" :> JStr(<< "#", "é", "1" >>)) @@ ("line-color" :> JStr(<< "#", "é", "1" >>)))

P_background == JObj("background-color" :> JStr(<< "#", "1", "2", "3" >>))

P_bad_background == JObj("background-color" :> JStr(<< "r", "e", "d" >>))

Paints ==
    { Some(P_plain), Some(P_stops), Some(P_interpolate), Some(P_empty_stops),
      Some(P_bad_color), Some(P_two_byte), Some(P_interpolate_color), None }

L_text == JObj(("text-field" :> JStr(<< "{", "n", "a", "m", "e", "}" >>)) @@ ("text-size" :> JNum(12000)))

LayerTypes ==
    { "Fill", "Line", "Symbol", "Circle", "Heatmap", "FillExtrusion", "Raster",
      "Hillshade", "Background" }

Layer(layer_type, source_layer, paint, layout, filter) ==
    [layer_type |-> layer_type, source_layer |-> source_layer, paint |-> paint,
     layout |-> layout, filter |-> filter]

\* the layers: each field varied around a line layer and a fill layer
Layers ==
    { Layer(t, Some("roads"), Some(P_plain), Some(L_text), None) : t \in LayerTypes }
      \cup { Layer("Line", sl, Some(P_plain), None, None) :
                sl \in { None, Some("water"), Some("place") } }
      \cup { Layer(t, Some("water"), p, None, None) : t \in {"Fill", "Line"}, p \in Paints }
      \cup { Layer("Line", Some("place"), Some(P_plain), None, Some(f)) : f \in Filters }
      \cup { Layer("Background", None, p, None, None) :
                p \in Paints \cup { Some(P_background), Some(P_bad_background) } }

RECURSIVE LayerSeqs(_)
LayerSeqs(n) ==
    IF n = 0 THEN { << >> }
    ELSE LET shorter == LayerSeqs(n - 1) IN
         shorter \cup { Append(ls, l) : ls \in { x \in shorter : Len(x) = n - 1 },
                                        l \in Layers }

Stylesheets == { [layers |-> ls] : ls \in LayerSeqs(MaxLayers) }

InitConvert ==
    /\ DocAtRest
    /\ input \in { [style |-> st] : st \in Stylesheets }
    /\ output = [stage |-> "start"]

\* the call of convert_maptiler_to_galileo on the parsed stylesheet (style.rs:102-105)
Convert ==
    /\ output.stage = "start"
    /\ output' = [stage |-> "converted",
                  result |-> convert_maptiler_to_galileo(input.style)]
    /\ UNCHANGED << input, docVars >>

-----------------------------------------------------------------------------
(* parse_color exercised on its own: one colour, given by the values 0..15   *)
(* of its three hex digits, written in the notations of CSS                  *)

LowerHex ==
    << "0", "1", "2", "3", "4", "5", "6", "7", "8", "9", "a", "b", "c", "d", "e", "f" >>

UpperHex ==
    << "0", "1", "2", "3", "4", "5", "6", "7", "8", "9", "A", "B", "C", "D", "E", "F" >>

\* the hex digit of value n
HexDigit(n, upper) == IF upper THEN UpperHex[n + 1] ELSE LowerHex[n + 1]

\* the decimal notation of n < 1000
DecimalText(n) ==
    (IF n >= 100 THEN << LowerHex[(n \div 100) + 1] >> ELSE << >>)
      \o (IF n >= 10 THEN << LowerHex[((n \div 10) % 10) + 1] >> ELSE << >>)
      \o << LowerHex[(n % 10) + 1] >>

\* `, ` or `,`
Comma(spaced) == IF spaced THEN << ",", " " >> ELSE << "," >>

\* #RGB
ShortHexText(c) ==
    << "#", HexDigit(c.r, c.upper), HexDigit(c.g, c.upper), HexDigit(c.b, c.upper) >>

\* #RRGGBB, each digit doubled
LongHexText(c) ==
    << "#", HexDigit(c.r, c.upper), HexDigit(c.r, c.upper),
            HexDigit(c.g, c.upper), HexDigit(c.g, c.upper),
            HexDigit(c.b, c.upper), HexDigit(c.b, c.upper) >>

\* rgb(r,g,b) with the channel values of #RRGGBB
RgbText(c) ==
    << "r", "g", "b", "(" >> \o DecimalText(17 * c.r) \o Comma(c.spaced)
      \o DecimalText(17 * c.g) \o Comma(c.spaced)
      \o DecimalText(17 * c.b) \o << ")" >>

\* the hue in degrees of a colour whose channels are all 0 or 255 and not all equal
PureHue(c) ==
    CASE c.r = 15 /\ c.g = 0 /\ c.b = 0 -> 0
      [] c.r = 15 /\ c.g = 15 /\ c.b = 0 -> 60
      [] c.r = 0 /\ c.g = 15 /\ c.b = 0 -> 120
      [] c.r = 0 /\ c.g = 15 /\ c.b = 15 -> 180
      [] c.r = 0 /\ c.g = 0 /\ c.b = 15 -> 240
      [] c.r = 15 /\ c.g = 0 /\ c.b = 15 -> 300

\* hsl(h,s%,l%) of a colour whose channels are all 0 or 255, None for the others
HslText(c) ==
    IF {c.r, c.g, c.b} = {0} THEN Some(<< "h", "s", "l", "(", "0" >> \o Comma(c.spaced)
                                        \o << "0", "%" >> \o Comma(c.spaced) \o << "0", "%", ")" >>)
    ELSE IF {c.r, c.g, c.b} = {15}
    THEN Some(<< "h", "s", "l", "(", "0" >> \o Comma(c.spaced) \o << "0", "%" >>
                \o Comma(c.spaced) \o << "1", "0", "0", "%", ")" >>)
    ELSE IF {c.r, c.g, c.b} = {0, 15}
    THEN Some(<< "h", "s", "l", "(" >> \o DecimalText(PureHue(c)) \o Comma(c.spaced)
                \o << "1", "0", "0", "%" >> \o Comma(c.spaced) \o << "5", "0", "%", ")" >>)
    ELSE None

Colours == [r : 0..15, g : 0..15, b : 0..15, upper : BOOLEAN, spaced : BOOLEAN]

InitColor ==
    /\ DocAtRest
    /\ input \in { [colour |-> c] : c \in Colours }
    /\ output = [stage |-> "start"]

\* the calls of parse_color (converter.rs:341, 348) on each notation of the colour
ParseColor ==
    /\ output.stage = "start"
    /\ output' = [stage |-> "parsed",
                  short |-> parse_color(ShortHexText(input.colour)),
                  long |-> parse_color(LongHexText(input.colour)),
                  rgb |-> parse_color(RgbText(input.colour)),
                  hsl |-> IF IsSome(HslText(input.colour))
                          THEN parse_color(Unwrap(HslText(input.colour)))
                          ELSE Ok(None)]
    /\ UNCHANGED << input, docVars >>

\* the alpha values written into the colour, in thousandths: each a multiple of
\* 1/4, which f64 holds exactly
Alphas == { 0, 250, 500, 750, 1000 }

\* the decimal notation of an alpha value: 0, 0.25, 0.5, 0.75, 1
AlphaText(alpha) ==
    IF alpha % 1000 = 0 THEN DecimalText(alpha \div 1000)
    ELSE DecimalText(alpha \div 1000) \o << "." >> \o FractionDigits(alpha % 1000)

\* rgba(r,g,b,a)
RgbaText(c, alpha) ==
    << "r", "g", "b", "a", "(" >> \o DecimalText(17 * c.r) \o Comma(c.spaced)
      \o DecimalText(17 * c.g) \o Comma(c.spaced)
      \o DecimalText(17 * c.b) \o Comma(c.spaced) \o AlphaText(alpha) \o << ")" >>

\* hsla(h,s%,l%,a) of a colour that has an hsl notation, None for the others
HslaText(c, alpha) ==
    IF IsSome(HslText(c))
    THEN Some(<< "h", "s", "l", "a", "(" >>
                \o SubSeq(Unwrap(HslText(c)), 5, Len(Unwrap(HslText(c))) - 1)
                \o Comma(c.spaced) \o AlphaText(alpha) \o << ")" >>)
    ELSE None

\* the calls of parse_color (converter.rs:341, 348) on the notations with an alpha
ParseAlpha ==
    /\ output.stage = "start"
    /\ \E alpha \in Alphas :
          output' = [stage |-> "alpha",
                     alpha |-> alpha,
                     rgba |-> parse_color(RgbaText(input.colour, alpha)),
                     hsla |-> IF IsSome(HslaText(input.colour, alpha))
                              THEN parse_color(Unwrap(HslaText(input.colour, alpha)))
                              ELSE Ok(None)]
    /\ UNCHANGED << input, docVars >>

NextColor == ParseColor \/ ParseAlpha

SpecColor == InitColor /\ [][NextColor]_vars

-----------------------------------------------------------------------------
(* The style document: StyleWindow and Rule (style.rs)                       *)

\* UPDATE_TIMEOUT (style.rs:18), in milliseconds
UPDATE_TIMEOUT == 100

\* to_egui_color (style.rs:209-211): from_rgba_premultiplied stores the four bytes
to_egui_color(color) == color

\* to_galileo_color (style.rs:213-215)
to_galileo_color(color) == color

TRANSPARENT == << 0, 0, 0, 0 >>

WHITE == << 255, 255, 255, 255 >>

\* the fonts of a label built by Rule::get_rule (style.rs:342-350)
EditorFonts ==
    << "Noto Sans", "Noto Sans CJK JP", "Noto Sans CJK KR", "Noto Sans CJK SC",
       "Noto Sans CJK TC", "Noto Sans KR", "Noto Sans JP" >>

\* the first `match &style_rule.symbol` of Rule::new (style.rs:269-280)
SymbolColorSize(symbol) ==
    CASE symbol.kind = "Point" ->
            [color |-> to_egui_color(symbol.color), size |-> symbol.size]
      [] symbol.kind = "Line" ->
            [color |-> to_egui_color(symbol.stroke_color), size |-> symbol.width]
      [] symbol.kind = "Polygon" ->
            [color |-> to_egui_color(symbol.fill_color), size |-> 0]
      [] symbol.kind = "Label" ->
            [color |-> to_egui_color(symbol.text_style.font_color),
             size |-> symbol.text_style.font_size]
      [] OTHER -> [color |-> to_egui_color(TRANSPARENT), size |-> 0]

\* the second `match &style_rule.symbol` of Rule::new (style.rs:282-289)
SymbolHalo(symbol) ==
    IF symbol.kind = "Label"
    THEN [halo_color |-> to_egui_color(symbol.text_style.outline_color),
          halo_width |-> symbol.text_style.outline_width,
          pattern |-> symbol.pattern]
    ELSE [halo_color |-> WHITE, halo_width |-> 2000, pattern |-> << >>]

\* Rule::new (style.rs:262-302); sizes and widths in thousandths
Rule_new(style_rule, id) ==
    [id |-> id,
     layer_name |-> UnwrapOr(style_rule.layer_name, ""),
     filter |-> FormatFilter(style_rule.properties),
     color |-> SymbolColorSize(style_rule.symbol).color,
     size |-> SymbolColorSize(style_rule.symbol).size,
     symbol_type |-> style_rule.symbol.kind,
     action |-> "None",
     halo_color |-> SymbolHalo(style_rule.symbol).halo_color,
     halo_width |-> SymbolHalo(style_rule.symbol).halo_width,
     pattern |-> SymbolHalo(style_rule.symbol).pattern]

\* Rule::new_empty (style.rs:304-317)
new_empty(id) ==
    [id |-> id,
     layer_name |-> "",
     filter |-> << >>,
     color |-> TRANSPARENT,
     size |-> 1000,
     symbol_type |-> "None",
     action |-> "None",
     halo_color |-> to_egui_color(WHITE),
     halo_width |-> 2000,
     pattern |-> << >>]

\* the `match self.symbol_type` of Rule::get_rule (style.rs:324-361)
RuleSymbol(rule) ==
    CASE rule.symbol_type = "Point" ->
            [kind |-> "Point", size |-> rule.size,
             color |-> to_galileo_color(rule.color)]
      [] rule.symbol_type = "Line" ->
            [kind |-> "Line", width |-> rule.size,
             stroke_color |-> to_galileo_color(rule.color)]
      [] rule.symbol_type = "Polygon" ->
            [kind |-> "Polygon", fill_color |-> to_galileo_color(rule.color)]
      [] rule.symbol_type = "Label" ->
            [kind |-> "Label",
             pattern |-> rule.pattern,
             text_style |->
               [font_family |-> EditorFonts,
                font_size |-> rule.size,
                font_color |-> to_galileo_color(rule.color),
                weight |-> "BOLD",
                outline_width |-> rule.halo_width,
                outline_color |-> to_galileo_color(rule.halo_color)]]
      [] OTHER -> SymbolNone

\* Rule::get_rule (style.rs:319-367)
get_rule(rule) ==
    [layer_name |-> IF rule.layer_name = "" THEN None ELSE Some(rule.layer_name),
     properties |-> UnwrapOr(parse_filter(rule.filter), << >>),
     symbol |-> RuleSymbol(rule)]

\* the rules StyleWindow::new and load_style build: ids 1, 2, ... in order
\* (style.rs:32-40, 76-84)
NumberedRules(style_rules) ==
    [k \in 1..Len(style_rules) |-> Rule_new(style_rules[k], k)]

\* StyleWindow::new (style.rs:31-49)
StyleWindow_new(style) ==
    [is_changed |-> FALSE,
     last_changed_at |-> None,
     background_color |-> to_egui_color(style.background),
     rules |-> NumberedRules(style.rules),
     last_rule_id |-> Len(style.rules)]

\* StyleWindow::style (style.rs:67-72)
style(self) ==
    [rules |-> [k \in 1..Len(self.rules) |-> get_rule(self.rules[k])],
     background |-> to_galileo_color(self.background_color)]

\* StyleWindow::mark_changed (style.rs:199-202) at the instant t
mark_changed(self, t) == [self EXCEPT !.last_changed_at = Some(t)]

\* mark_unchanged that leaves the flag as it finds it
mark_unchanged_keeping(self) == self

\* StyleWindow::mark_unchanged (style.rs:204-206)
mark_unchanged(self) == [self EXCEPT !.is_changed = FALSE]

\* load_style that keeps the rules it finds and numbers the loaded ones after them
load_style_appending(self, new_style, t) ==
    mark_changed([self EXCEPT
                    !.rules = @ \o [k \in 1..Len(new_style.rules) |->
                                      Rule_new(new_style.rules[k], self.last_rule_id + k)],
                    !.last_rule_id = @ + Len(new_style.rules),
                    !.background_color = to_egui_color(new_style.background)],
                 t)

\* StyleWindow::load_style (style.rs:75-88)
load_style(self, new_style, t) ==
    mark_changed([self EXCEPT !.rules = NumberedRules(new_style.rules),
                              !.last_rule_id = Len(new_style.rules),
                              !.background_color = to_egui_color(new_style.background)],
                 t)

\* update_changed without the comparison with the clock
update_changed_at_once(self, t) ==
    IF IsSome(self.last_changed_at)
    THEN [self EXCEPT !.is_changed = TRUE, !.last_changed_at = None]
    ELSE self

\* update_changed that disarms the timer without reporting the change
update_changed_dropping(self, t) ==
    IF IsSome(self.last_changed_at) /\ t >= Unwrap(self.last_changed_at) + UPDATE_TIMEOUT
    THEN [self EXCEPT !.last_changed_at = None]
    ELSE self

\* StyleWindow::update_changed (style.rs:185-197) at the instant t
update_changed(self, t) ==
    IF IsSome(self.last_changed_at) /\ t >= Unwrap(self.last_changed_at) + UPDATE_TIMEOUT
    THEN [self EXCEPT !.is_changed = TRUE, !.last_changed_at = None]
    ELSE self

\* next_rule_id that forgets to count
next_rule_id_stuck(self) == self

\* next_rule_id that counts on from the largest id in use
next_rule_id_after_largest(self) ==
    [self EXCEPT !.last_rule_id =
        1 + Cardinality({ id \in 1..self.last_rule_id :
                            \E k \in 1..Len(self.rules) : self.rules[k].id >= id })]

\* next_rule_id that takes the number of rules
next_rule_id_from_count(self) == [self EXCEPT !.last_rule_id = Len(self.rules) + 1]

\* StyleWindow::next_rule_id (style.rs:180-183): the new id is the last_rule_id
\* of the result
next_rule_id(self) == [self EXCEPT !.last_rule_id = @ + 1]

\* Vec::swap on 1-based positions
Swap(items, i, j) == [items EXCEPT ![i] = items[j], ![j] = items[i]]

\* Vec::remove that takes the last element whatever the position
RemoveLast(items, i) == SubSeq(items, 1, Len(items) - 1)

\* Vec::remove on a 1-based position
Remove(items, i) == SubSeq(items, 1, i - 1) \o SubSeq(items, i + 1, Len(items))

\* the `match action` without the guards on the index: MoveUp of the first rule and
\* MoveDown of the last one exchange the two ends of the list
ApplyActionWrapping(items, index, action) ==
    CASE action = "MoveUp" ->
            IF index > 1 THEN [items EXCEPT ![index] = items[index - 1],
                                            ![index - 1] = items[index]]
            ELSE [items EXCEPT ![1] = items[Len(items)], ![Len(items)] = items[1]]
      [] action = "MoveDown" ->
            IF index < Len(items) THEN [items EXCEPT ![index] = items[index + 1],
                                                     ![index + 1] = items[index]]
            ELSE [items EXCEPT ![1] = items[Len(items)], ![Len(items)] = items[1]]
      [] action = "Remove" ->
            SubSeq(items, 1, index - 1) \o SubSeq(items, index + 1, Len(items))
      [] OTHER -> items

\* the `match action` with MoveDown swapping with the last rule
ApplyActionToEnd(items, index, action) ==
    CASE action = "MoveUp" /\ index > 1 ->
            [items EXCEPT ![index] = items[index - 1], ![index - 1] = items[index]]
      [] action = "MoveDown" /\ index < Len(items) ->
            [items EXCEPT ![index] = items[Len(items)], ![Len(items)] = items[index]]
      [] action = "Remove" ->
            SubSeq(items, 1, index - 1) \o SubSeq(items, index + 1, Len(items))
      [] OTHER -> items

\* the `match action` of StyleWindow::ui (style.rs:152-163); index is 1-based, so
\* the code's `index > 0` is `index > 1` and `index < len - 1` is `index < len`
ApplyAction(items, index, action) ==
    CASE action = "MoveUp" /\ index > 1 -> Swap(items, index, index - 1)
      [] action = "MoveDown" /\ index < Len(items) -> Swap(items, index, index + 1)
      [] action = "Remove" -> Remove(items, index)
      [] OTHER -> items

\* Rule::ui without the reset of the action: a row without input keeps the action
\* of the frame before
Rule_ui_without_reset(rule, act) ==
    [rule EXCEPT !.action = IF act.kind = "None" THEN @ ELSE act.kind,
                 !.filter = IF act.kind = "Modified" THEN act.filter ELSE @]

\* Rule::ui (style.rs:426-505) under the frame's input for this rule: the action is
\* reset, a click sets it, an edit of the filter text sets Modified
Rule_ui(rule, act) ==
    [rule EXCEPT !.action = act.kind,
                 !.filter = IF act.kind = "Modified" THEN act.filter ELSE @]

\* the loop keeping the first non-None action: the lowest such index, 0 when none
FirstActing(acts, k) ==
    IF \A j \in 1..k : acts[j].kind = "None" THEN 0
    ELSE CHOOSE j \in 1..k :
            acts[j].kind # "None" /\ \A i \in 1..(j - 1) : acts[i].kind = "None"

\* the loop over the rules (style.rs:142-149): every non-None action overwrites
\* ui_action, so the one of the last such rule is kept; 0 when there is none
RECURSIVE LastActing(_, _)
LastActing(acts, k) ==
    IF k = 0 THEN 0
    ELSE IF acts[k].kind # "None" THEN k
    ELSE LastActing(acts, k - 1)

\* the "Load MapTiler Style..." button (style.rs:92-125); a click that loads nothing
\* (cancelled dialog, unreadable or unparsable file) is a frame without a load
LoadButton(self, loaded, t) ==
    IF IsSome(loaded) THEN load_style(self, Unwrap(loaded), t) ELSE self

\* the background colour button (style.rs:129-137)
BackgroundButton(self, picked, t) ==
    IF IsSome(picked)
    THEN mark_changed([self EXCEPT !.background_color = Unwrap(picked)], t)
    ELSE self

\* the rules of the frame and the action applied (style.rs:141-167)
RuleRows(self, acts, t) ==
    With([k \in 1..Len(self.rules) |-> Rule_ui(self.rules[k], acts[k])], LAMBDA shown :
    With(LastActing([k \in 1..Len(shown) |-> [kind |-> shown[k].action]], Len(shown)),
         LAMBDA index :
    IF index = 0 THEN [self EXCEPT !.rules = shown]
    ELSE [self EXCEPT
            !.rules = ApplyAction(shown, index, shown[index].action),
            !.last_changed_at = Some(t)]))

\* the "+" button (style.rs:169-175)
AddButton(self, clicked) ==
    IF clicked
    THEN With(next_rule_id(self), LAMBDA next :
         [next EXCEPT !.rules = Append(@, new_empty(next.last_rule_id))])
    ELSE self

\* StyleWindow::ui (style.rs:90-178) at the instant t, under the frame's input
ui(self, frame, t) ==
    update_changed(
        AddButton(
            RuleRows(
                BackgroundButton(LoadButton(self, frame.loaded, t), frame.background, t),
                frame.actions, t),
            frame.add),
        t)

-----------------------------------------------------------------------------
(* The application: GalileoApp::new and GalileoApp::update (app.rs)          *)

\* bound: the clock stops at MaxTime ms
MaxTime == 150

\* bound: user input events (clicks, edits) that fall into one frame
MaxEvents == 2

\* time between two frames: half the debounce delay, or all of it
Deltas == { UPDATE_TIMEOUT \div 2, UPDATE_TIMEOUT }

\* a stylesheet of three layers, each giving a rule
SheetThree ==
    [layers |-> << Layer("Fill", Some("water"), Some(P_plain), None, None),
                   Layer("Line", Some("roads"), Some(P_plain), None, Some(F_eq)),
                   Layer("Symbol", Some("place"), Some(P_plain), Some(L_text), None) >>]

\* a stylesheet of a background and one layer
SheetOne ==
    [layers |-> << Layer("Background", None, Some(P_plain), None, None),
                   Layer("Line", Some("roads"), Some(P_interpolate), None, Some(F_in)) >>]

\* a stylesheet of two layers, each giving a rule, and no background
SheetTwo ==
    [layers |-> << Layer("Line", Some("place"), Some(P_stops), None, None),
                   Layer("Fill", Some("roads"), Some(P_plain), None, Some(F_in)) >>]

\* the style the application starts with (app.rs:45-48)
InitialStyles == { convert_maptiler_to_galileo(SheetThree).v }

\* the files the user can pick in the dialog (style.rs:94-101)
Sheets == { SheetOne, SheetTwo }

\* what a click on the load button brings (style.rs:92-125): nothing, or the
\* converted style of the picked file; a conversion that panics ends the process
LoadChoices ==
    { None } \cup { Some(convert_maptiler_to_galileo(sheet).v) :
                      sheet \in { x \in Sheets : ~convert_maptiler_to_galileo(x).panic } }

\* the colour the user picks for the background, if any
BackgroundChoices == { None, Some(<< 10, 20, 30, 255 >>) }

\* the filter texts the user types
EditTexts == { T_z_eq_5 }

\* what the user does to one rule within a frame
ActionChoices ==
    { [kind |-> k] : k \in {"None", "MoveUp", "MoveDown", "Remove"} }
      \cup { [kind |-> "Modified", filter |-> text] : text \in EditTexts }

\* the StyleWindow as a value
Self ==
    [is_changed |-> is_changed,
     last_changed_at |-> last_changed_at,
     background_color |-> background_color,
     rules |-> rules,
     last_rule_id |-> last_rule_id]

\* the input of the rule rows: one choice per rule shown; an edit changes the text
FrameActions(shown) ==
    { acts \in [1..Len(shown) -> ActionChoices] :
        \A k \in 1..Len(shown) :
            acts[k].kind = "Modified" => acts[k].filter # shown[k].filter }

Acting(acts) == { k \in 1..Len(acts) : acts[k].kind # "None" }

EventCount(frame) ==
    (IF IsSome(frame.loaded) THEN 1 ELSE 0)
      + (IF IsSome(frame.background) THEN 1 ELSE 0)
      + Cardinality(Acting(frame.actions))
      + (IF frame.add THEN 1 ELSE 0)

\* the frame applied one of the changes a rule row can make: an edit, or the kept
\* action when it moves or removes a rule
RowsChanged(acts) ==
    \/ \E k \in Acting(acts) : acts[k].kind = "Modified"
    \/ LET index == LastActing(acts, Len(acts)) IN
       /\ index # 0
       /\ \/ acts[index].kind = "Remove"
          \/ acts[index].kind = "MoveUp" /\ index > 1
          \/ acts[index].kind = "MoveDown" /\ index < Len(acts)

\* the frame changed the document by a load, a background edit or a rule row
Changed(frame) ==
    IsSome(frame.loaded) \/ IsSome(frame.background) \/ RowsChanged(frame.actions)

\* the record of a frame kept in op
Record(frame, after) ==
    [loaded |-> IsSome(frame.loaded),
     style |-> frame.loaded,
     background |-> IsSome(frame.background),
     actions |-> frame.actions,
     add |-> frame.add,
     numbered |-> IF IsSome(frame.loaded) THEN 1..Len(Unwrap(frame.loaded).rules) ELSE {},
     fresh |-> IF frame.add THEN {after.last_rule_id} ELSE {}]

\* the ids a frame gave that were in the given set already
Reused(record, earlier) == (record.numbered \cup record.fresh) \cap earlier

\* the only input of the frame recorded in o was the given action on one rule
Lone(o, kind) ==
    /\ ~o.loaded /\ ~o.background /\ ~o.add
    /\ Cardinality(Acting(o.actions)) = 1
    /\ o.actions[LastActing(o.actions, Len(o.actions))].kind = kind

\* the window after StyleWindow::show (app.rs:184), with the history of the run
Shown(after, frame, t) ==
    /\ is_changed' = after.is_changed
    /\ last_changed_at' = after.last_changed_at
    /\ background_color' = after.background_color
    /\ rules' = after.rules
    /\ last_rule_id' = after.last_rule_id
    /\ now' = t
    /\ pc' = "shown"
    /\ op' = Record(frame, after)
    /\ before' = [rules |-> rules, last_rule_id |-> last_rule_id,
                  background_color |-> background_color]
    /\ undo' = IF Lone(op, "MoveUp")
               THEN Some([index |-> LastActing(op.actions, Len(op.actions)),
                          rules |-> before.rules])
               ELSE None
    /\ given' = given \cup Record(frame, after).numbered \cup Record(frame, after).fresh
    /\ given_gen' = (IF IsSome(frame.loaded) THEN {} ELSE given_gen)
                      \cup Record(frame, after).numbered \cup Record(frame, after).fresh
    /\ due' = IF after.is_changed
              THEN pending \cup (IF Changed(frame) THEN {t} ELSE {})
              ELSE {}
    /\ pending' = IF after.is_changed
                  THEN {}
                  ELSE pending \cup (IF Changed(frame) THEN {t} ELSE {})
    /\ UNCHANGED << vt_style, funVars >>

\* GalileoApp::new (app.rs:34-114): the window built from the initial style, the
\* layer built with the window's style (app.rs:62)
Init ==
    /\ \E initial \in InitialStyles :
        /\ is_changed = StyleWindow_new(initial).is_changed
        /\ last_changed_at = StyleWindow_new(initial).last_changed_at
        /\ background_color = StyleWindow_new(initial).background_color
        /\ rules = StyleWindow_new(initial).rules
        /\ last_rule_id = StyleWindow_new(initial).last_rule_id
        /\ vt_style = style(StyleWindow_new(initial))
        /\ before = [rules |-> StyleWindow_new(initial).rules,
                     last_rule_id |-> StyleWindow_new(initial).last_rule_id,
                     background_color |-> StyleWindow_new(initial).background_color]
        /\ given = 1..Len(initial.rules)
        /\ given_gen = 1..Len(initial.rules)
    /\ pc = "idle"
    /\ now = 0
    /\ op = NoFrame
    /\ undo = None
    /\ pending = {}
    /\ due = {}
    /\ input = << >>
    /\ output = << >>

\* the frame's input below the load button, on the window as the button left it
Rows(loaded_self, loaded, t) ==
    \E picked \in BackgroundChoices, add \in BOOLEAN,
       acts \in FrameActions(loaded_self.rules) :
        /\ EventCount([loaded |-> loaded, background |-> picked,
                       actions |-> acts, add |-> add]) <= MaxEvents
        /\ IsSome(picked) => Unwrap(picked) # loaded_self.background_color
        /\ Shown(ui(Self, [loaded |-> loaded, background |-> picked,
                           actions |-> acts, add |-> add], t),
                 [loaded |-> loaded, background |-> picked,
                  actions |-> acts, add |-> add],
                 t)

\* one frame: StyleWindow::show, that is StyleWindow::ui (app.rs:184, style.rs:90-178)
Tick ==
    /\ pc = "idle"
    /\ \E delta \in Deltas, loaded \in LoadChoices :
        /\ now + delta <= MaxTime
        /\ Rows(LoadButton(Self, loaded, now + delta), loaded, now + delta)

\* a commit that takes the rule list as it was before the frame
CommitHalfUpdated ==
    /\ pc = "shown"
    /\ pc' = "idle"
    /\ IF is_changed
       THEN /\ vt_style' = style([Self EXCEPT !.rules = before.rules])
            /\ is_changed' = mark_unchanged(Self).is_changed
       ELSE UNCHANGED << vt_style, is_changed >>
    /\ UNCHANGED << last_changed_at, background_color, rules, last_rule_id, now,
                    op, before, undo, given, given_gen, pending, due, funVars >>

\* the rest of GalileoApp::update (app.rs:184-190): a changed style goes to the layer
Commit ==
    /\ pc = "shown"
    /\ pc' = "idle"
    /\ IF is_changed
       THEN /\ vt_style' = style(Self)
            /\ is_changed' = mark_unchanged(Self).is_changed
       ELSE UNCHANGED << vt_style, is_changed >>
    /\ UNCHANGED << last_changed_at, background_color, rules, last_rule_id, now,
                    op, before, undo, given, given_gen, pending, due, funVars >>

Next == Tick \/ Commit

Spec == Init /\ [][Next]_vars

\* the application whose frames keep coming: a change arms a repaint after
\* UPDATE_TIMEOUT (style.rs:166, 201), and update runs to its end (app.rs:160-192).
\* The steps of Tick are the steps from idle to shown, possible while a frame can
\* still come before MaxTime; the steps of Commit are those from shown to idle
SpecLive ==
    /\ Spec
    /\ WF_pc(pc = "idle" /\ now + UPDATE_TIMEOUT \div 2 <= MaxTime /\ pc' = "shown")
    /\ WF_pc(pc = "shown" /\ pc' = "idle")

-----------------------------------------------------------------------------
(* The converter exercised on its own, and its result through the editor     *)

\* the converted style handed to the editor and read back: load_style on the
\* window (style.rs:104-105), StyleWindow::new (app.rs:45-48), then style()
\* (app.rs:62, 187)
Edit ==
    /\ output.stage = "converted"
    /\ ~output.result.panic
    /\ output' = [stage |-> "edited",
                  result |-> output.result,
                  created |-> style(StyleWindow_new(output.result.v)),
                  loaded |-> style(load_style(Self, output.result.v, now))]
    /\ UNCHANGED << input, docVars >>

NextConvert == Convert \/ Edit

SpecConvert == InitConvert /\ [][NextConvert]_vars

-----------------------------------------------------------------------------
(* Properties of the style document, under Spec                              *)

\* the rules without the transient action field
Content(items) == [k \in 1..Len(items) |-> [items[k] EXCEPT !.action = "None"]]

Ids(items) == { items[k].id : k \in 1..Len(items) }

\* the index of the rule whose action the frame recorded in o kept
KeptIndex(o) == LastActing(o.actions, Len(o.actions))

\* C1, as stated: after every frame, a change made at t that is not yet reported
\* is younger than 100 ms (so it is reported at the first frame at or after
\* t + 100 ms), and a change that the frame reports is at least 100 ms old
C1_Debounce ==
    pc = "shown" =>
        /\ \A t \in pending : now < t + UPDATE_TIMEOUT
        /\ \A t \in due : now >= t + UPDATE_TIMEOUT

\* C1, amended: a change is never reported earlier than 100 ms after it was made;
\* while a change made at t is not reported, the timer is armed at an instant at or
\* after t that is less than 100 ms old, so the change is reported at the first
\* frame that comes 100 ms or more after the last input that armed the timer
C1_DebounceFromLastInput ==
    pc = "shown" =>
        /\ \A t \in due : now >= t + UPDATE_TIMEOUT
        /\ pending # {} =>
             /\ ~is_changed
             /\ IsSome(last_changed_at)
             /\ now < Unwrap(last_changed_at) + UPDATE_TIMEOUT
             /\ \A t \in pending : t <= Unwrap(last_changed_at)

\* C1, witness: a frame reports a change made 100 ms before it
C1_Reported == pc = "shown" /\ is_changed /\ due # {} /\ pending = {}

\* C2: every rule's id is at most last_rule_id, and no two rules share an id
C2_IdsBoundedAndDistinct ==
    /\ \A k \in 1..Len(rules) : rules[k].id <= last_rule_id
    /\ \A j, k \in 1..Len(rules) : j # k => rules[j].id # rules[k].id

\* C2, witness: a rule was added after another one had been removed
C2_AddedAfterRemove ==
    /\ pc = "shown" /\ op.add /\ ~op.loaded
    /\ given = given_gen
    /\ Len(rules) < last_rule_id

\* C3, as stated: no frame leaves last_rule_id smaller than it found it
C3_NeverDecreases == pc = "shown" => last_rule_id >= before.last_rule_id

\* C3, amended: a frame that loads no style never leaves last_rule_id smaller than
\* it found it, a removal included; a frame that loads a style sets last_rule_id
\* to the number of rules numbered by the load plus the rule added after it
C3_NeverDecreasesUnlessLoaded ==
    pc = "shown" =>
        /\ ~op.loaded => last_rule_id >= before.last_rule_id
        /\ op.loaded => last_rule_id = Cardinality(op.numbered) + Cardinality(op.fresh)

\* C3, witness: a frame removed a rule and last_rule_id stayed
C3_RemovedAndKept ==
    /\ pc = "shown" /\ ~op.loaded /\ ~op.add
    /\ Len(rules) < Len(before.rules)
    /\ last_rule_id = before.last_rule_id

\* the frame's only input was a move of one rule
LoneMove == Lone(op, "MoveUp") \/ Lone(op, "MoveDown")

\* C4, as stated: a frame gives no id that was given before, by a load or by an
\* add, and a frame that only moves a rule leaves every rule its id
C4_NeverReused ==
    [][pc' = "shown" =>
         /\ Reused(op', given) = {}
         /\ LoneMove' => \A k \in 1..Len(rules) :
                            \E j \in 1..Len(rules') :
                                Content(rules')[j] = Content(rules)[k]]_vars

\* C4, amended: an add gives an id that no rule was given since the document was
\* built or last loaded; a load numbers its rules from 1 again, so ids given before
\* the load come back; a frame that only moves a rule leaves every rule its id
C4_NeverReusedSinceLoad ==
    [][pc' = "shown" =>
         /\ op'.fresh \cap (IF op'.loaded THEN op'.numbered ELSE given_gen) = {}
         /\ op'.numbered = 1..Cardinality(op'.numbered)
         /\ LoneMove' => \A k \in 1..Len(rules) :
                            \E j \in 1..Len(rules') :
                                Content(rules')[j] = Content(rules)[k]]_vars

\* C4, witness: a rule was added while an id given since the last load is no longer
\* in use
C4_AddedWithIdRetired ==
    /\ pc = "shown" /\ op.add
    /\ \E id \in given_gen : id \notin Ids(rules)

\* C5, as stated (index i of the claim is KeptIndex - 1): MoveUp on a rule of the
\* strict interior, then MoveDown at the same index, gives the list back
C5_UpThenDownSameIndex ==
    ( /\ pc = "shown" /\ IsSome(undo) /\ Lone(op, "MoveDown")
      /\ KeptIndex(op) = Unwrap(undo).index
      /\ 1 < Unwrap(undo).index /\ Unwrap(undo).index < Len(Unwrap(undo).rules) )
    => Content(rules) = Content(Unwrap(undo).rules)

\* C5, amended: MoveUp at an index that is not the first, then MoveDown at the index
\* before it (where the rule now is), gives the list back; MoveDown at the same
\* index of the strict interior does not
C5_UpThenDownWhereItIs ==
    (pc = "shown" /\ IsSome(undo) /\ Lone(op, "MoveDown") /\ 1 < Unwrap(undo).index)
    => /\ KeptIndex(op) = Unwrap(undo).index - 1
            => Content(rules) = Content(Unwrap(undo).rules)
       /\ (KeptIndex(op) = Unwrap(undo).index
             /\ Unwrap(undo).index < Len(Unwrap(undo).rules))
            => Content(rules) # Content(Unwrap(undo).rules)

\* C5, witness: MoveUp at an index, then MoveDown at the index before it
C5_MovedUpThenDown ==
    /\ pc = "shown" /\ IsSome(undo) /\ Lone(op, "MoveDown")
    /\ 1 < Unwrap(undo).index
    /\ KeptIndex(op) = Unwrap(undo).index - 1

-----------------------------------------------------------------------------
(* Properties of the converter, under SpecConvert                            *)

\* the conversion returned a style
Converted == output.stage = "converted" /\ ~output.result.panic

\* the layers of the input that convert_layer does not skip
NotSkipped == SelectSeq(input.style.layers, LAMBDA layer : convert_layer(layer) # Ok(None))

\* C6: the i-th rule of the output carries the source-layer of the i-th layer of
\* the input that was not skipped
C6_LayerOrderPreserved ==
    Converted =>
        /\ Len(output.result.v.rules) = Len(NotSkipped)
        /\ \A i \in 1..Len(NotSkipped) :
              output.result.v.rules[i].layer_name = NotSkipped[i].source_layer

\* C6, witness: two rules with different layer names come out
C6_TwoRulesInOrder ==
    /\ Converted
    /\ Len(output.result.v.rules) = 2
    /\ output.result.v.rules[1].layer_name # output.result.v.rules[2].layer_name

\* the layer has a source-layer and resolves to a symbol other than None
ResolvesToSymbol(layer) ==
    /\ IsSome(layer.source_layer)
    /\ ~LayerSymbol(layer).panic
    /\ IsSome(LayerSymbol(layer).v)
    /\ Unwrap(LayerSymbol(layer).v) # SymbolNone

\* the layer has a filter that parse_filter_to_rules rejects
FilterFails(layer) ==
    IsSome(layer.filter) /\ parse_filter_to_rules(Unwrap(layer.filter)) = Ok(None)

\* C7, as stated: a layer that resolves to a symbol and whose filter fails to parse
\* gives a rule with its layer name, its symbol and no predicate
C7_FailedFilterStillEmitted ==
    Converted =>
        \A k \in 1..Len(input.style.layers) :
            (ResolvesToSymbol(input.style.layers[k]) /\ FilterFails(input.style.layers[k]))
            => \E i \in 1..Len(output.result.v.rules) :
                  output.result.v.rules[i] =
                     [layer_name |-> input.style.layers[k].source_layer,
                      properties |-> << >>,
                      symbol |-> Unwrap(LayerSymbol(input.style.layers[k]).v)]

\* C8, as stated: the conversion of every stylesheet returns a style
C8_NeverPanics == output.stage = "converted" => ~output.result.panic

-----------------------------------------------------------------------------
(* Properties of the filter text, under SpecFilter                           *)

\* the single predicate (z, operator 5) as from_str builds it
OneComparison(operator) ==
    Some(<< [property_name |-> << "z" >>,
             operator |-> Unwrap(from_str(operator, << "5" >>))] >>)

\* C9, as stated: "z >= 5" parses to the single predicate (z, Ge 5) and "z <= 5"
\* to (z, Le 5)
C9_TwoCharacterComparisons ==
    output.stage = "parsed" =>
        /\ input.filter = T_z_ge_5 => output.parsed = OneComparison(S_ge)
        /\ input.filter = T_z_le_5 => output.parsed = OneComparison(S_le)

\* a text without its white space
RECURSIVE Squeeze(_)
Squeeze(text) ==
    IF text = << >> THEN << >>
    ELSE IF IsWhitespace(Head(text)) THEN Squeeze(Tail(text))
    ELSE << Head(text) >> \o Squeeze(Tail(text))

\* C10, as stated: a filter text that parse_filter accepts is, white space aside,
\* the text that Rule::new formats from the parsed predicates
C10_FilterTextRoundTrip ==
    (output.stage = "formatted" /\ IsSome(output.parsed))
    => Squeeze(output.filter) = Squeeze(input.filter)

\* the predicate (name, operator value) as from_str builds it from the operator meant
Predicate(name, operator, value) ==
    [property_name |-> name, operator |-> Unwrap(from_str(operator, value))]

\* the text of one predicate form: the name z, the operator token, the value
FormText(token, value) == << "z" >> \o token \o value

\* C11, as stated: every predicate form parses to the matching operator with the
\* text left of the operator as the property name, and a conjunction gives the
\* predicates of its blocks in block order
C11_EveryFormAccepted ==
    output.stage = "parsed" =>
        /\ \A token \in { S_eq, S_ne, S_lt, S_le, S_gt, S_ge } :
              input.filter = FormText(token, << "5" >>)
              => output.parsed = Some(<< Predicate(<< "z" >>, token, << "5" >>) >>)
        /\ \A word \in { S_in, S_not_in } :
              input.filter = FormText(<< " " >> \o word \o << " " >>,
                                      << "[", "b", ",", "t", "]" >>)
              => output.parsed = Some(<< Predicate(<< "z" >>, word, << "b", ",", "t" >>) >>)
        /\ \A word \in { S_exist, S_not_exist } :
              input.filter = FormText(<< " " >>, word)
              => output.parsed = Some(<< Predicate(<< "z" >>, word, << >>) >>)
        /\ input.filter = T_class_street \o T_and \o T_brunnel_in
              => output.parsed =
                    Some(<< Predicate(<< "c", "l", "a", "s", "s" >>, S_eq,
                                      << "s", "t", "r", "e", "e", "t" >>),
                            Predicate(<< "b", "r", "u", "n", "n", "e", "l" >>, S_in,
                                      << "b", "r", "i", "d", "g", "e", ",",
                                         "t", "u", "n", "n", "e", "l" >>) >>)

-----------------------------------------------------------------------------
(* Properties of the style document, under Spec (continued)                  *)

\* the frame recorded in o had no input in the rule rows
NoRowInput(o) == Acting(o.actions) = {}

\* the only input of the frame was a click on the load button that loaded a style
LoneLoad == op.loaded /\ ~op.background /\ ~op.add /\ NoRowInput(op)

\* C12: a load leaves the n rules of the loaded style in their order with the ids
\* 1..n, last_rule_id = n, the background of the style, and the timer armed at now
C12_LoadReplaces ==
    (pc = "shown" /\ LoneLoad) =>
        /\ Len(rules) = Len(Unwrap(op.style).rules)
        /\ \A k \in 1..Len(rules) :
              /\ rules[k] = Rule_new(Unwrap(op.style).rules[k], k)
              /\ rules[k].id = k
        /\ last_rule_id = Len(Unwrap(op.style).rules)
        /\ background_color = Unwrap(op.style).background
        /\ last_changed_at = Some(now)

\* C12, witness: a style of two different rules was loaded over a document that
\* had rules and another background
C12_TwoRulesLoaded ==
    /\ pc = "shown" /\ LoneLoad
    /\ Len(Unwrap(op.style).rules) = 2
    /\ Unwrap(op.style).rules[1] # Unwrap(op.style).rules[2]
    /\ before.rules # << >>
    /\ before.last_rule_id > 2

-----------------------------------------------------------------------------
(* Properties of the converter, under SpecConvert (continued)                *)

\* the layer is of kind background and its paint has a resolvable background-color
HasBackground(layer) ==
    /\ layer.layer_type = "Background"
    /\ IsSome(layer.paint)
    /\ ~extract_color(Unwrap(layer.paint), "background-color").panic
    /\ IsSome(extract_color(Unwrap(layer.paint), "background-color").v)

\* the layers that are not of kind background
NotBackground(layers) == SelectSeq(layers, LAMBDA layer : layer.layer_type # "Background")

\* C13: the background is the colour of the first background layer with a
\* resolvable background-color, rgba(240,240,240,255) when there is none, and the
\* rules are those of the stylesheet without its background layers
C13_BackgroundOfFirstLayer ==
    Converted =>
        /\ \A k \in 1..Len(input.style.layers) :
              ( /\ HasBackground(input.style.layers[k])
                /\ \A j \in 1..(k - 1) : ~HasBackground(input.style.layers[j]) )
              => output.result.v.background =
                    Unwrap(extract_color(Unwrap(input.style.layers[k].paint),
                                         "background-color").v)
        /\ (\A k \in 1..Len(input.style.layers) : ~HasBackground(input.style.layers[k]))
              => output.result.v.background = << 240, 240, 240, 255 >>
        /\ output.result.v.rules =
              convert_maptiler_to_galileo(
                  [layers |-> NotBackground(input.style.layers)]).v.rules

\* C13, witness: two background layers with different colours, and a background
\* layer with a colour after one without
C13_SecondBackgroundIgnored ==
    /\ Converted
    /\ Len(input.style.layers) = 2
    /\ input.style.layers[1].layer_type = "Background"
    /\ HasBackground(input.style.layers[2])
    /\ \/ /\ HasBackground(input.style.layers[1])
          /\ input.style.layers[1].paint # input.style.layers[2].paint
       \/ /\ ~HasBackground(input.style.layers[1])
          /\ IsSome(input.style.layers[1].paint)

-----------------------------------------------------------------------------
(* Properties of parse_color, under SpecColor                                *)

\* the colour tuple of the colour given by its three hex digits
ColourTuple(c) == << 17 * c.r, 17 * c.g, 17 * c.b, 255 >>

\* C14: #RGB, #RRGGBB with each digit doubled and rgb(r,g,b) with the same channel
\* values parse to the same tuple, and so does hsl(h,s%,l%) for the colours whose
\* channels are all 0 or 255 (#f00, #ff0000, rgb(255,0,0), hsl(0,100%,50%))
C14_NotationsAgree ==
    output.stage = "parsed" =>
        /\ output.short = Ok(Some(ColourTuple(input.colour)))
        /\ output.long = output.short
        /\ output.rgb = output.short
        /\ IsSome(HslText(input.colour)) => output.hsl = output.short

\* C14, witness: red, in its four notations, parsed to (255,0,0,255)
C14_RedParsed ==
    /\ output.stage = "parsed"
    /\ ShortHexText(input.colour) = << "#", "f", "0", "0" >>
    /\ RgbText(input.colour) = << "r", "g", "b", "(", "2", "5", "5", ",", "0", ",", "0", ")" >>
    /\ HslText(input.colour) = Some(<< "h", "s", "l", "(", "0", ",", "1", "0", "0", "%", ",",
                                       "5", "0", "%", ")" >>)
    /\ output.hsl = Ok(Some(<< 255, 0, 0, 255 >>))

-----------------------------------------------------------------------------
(* Properties of the style document, under Spec (continued)                  *)

\* the style of the document as it is: each rule's StyleRule, and the background
Snapshot ==
    [rules |-> [k \in 1..Len(rules) |-> get_rule(rules[k])],
     background |-> background_color]

\* C15: the style the tile layer holds is, from the start, the style of the
\* document, and it changes only to the style of the document as a completed
\* frame left it
C15_StyleOfCompletedTick ==
    /\ vt_style = Snapshot
    /\ [][vt_style' # vt_style => (pc = "shown" /\ vt_style' = Snapshot)]_vars

\* C15, witness: the layer holds a style whose rule list and background both differ
\* from the initial ones, published after frames that changed them
C15_Published ==
    /\ pc = "idle"
    /\ vt_style = Snapshot
    /\ Len(vt_style.rules) = 2
    /\ vt_style.background = << 10, 20, 30, 255 >>

\* the frame's input was in the rule rows of the document it found: no load, no add
RowsOnly == ~op.loaded /\ ~op.add /\ Acting(op.actions) # {}

\* the rule list as the rows left it before the frame's action is applied: each
\* rule carries the action of its row, and the text typed into it
RowsShown ==
    [k \in 1..Len(before.rules) |->
        [before.rules[k] EXCEPT
            !.action = op.actions[k].kind,
            !.filter = IF op.actions[k].kind = "Modified" THEN op.actions[k].filter ELSE @]]

\* the list after the action of the rule at 1-based position i alone
Applied(items, i) ==
    CASE items[i].action = "MoveUp" /\ i > 1 ->
            [k \in 1..Len(items) |->
                IF k = i THEN items[i - 1] ELSE IF k = i - 1 THEN items[i] ELSE items[k]]
      [] items[i].action = "MoveDown" /\ i < Len(items) ->
            [k \in 1..Len(items) |->
                IF k = i THEN items[i + 1] ELSE IF k = i + 1 THEN items[i] ELSE items[k]]
      [] items[i].action = "Remove" ->
            [k \in 1..(Len(items) - 1) |-> IF k < i THEN items[k] ELSE items[k + 1]]
      [] OTHER -> items

LowestActing == CHOOSE i \in Acting(op.actions) : \A j \in Acting(op.actions) : i <= j

HighestActing == CHOOSE i \in Acting(op.actions) : \A j \in Acting(op.actions) : i >= j

\* C16, as stated: the frame applies one action, that of the first rule (lowest
\* index) whose action is not None
C16_FirstActionApplied ==
    (pc = "shown" /\ RowsOnly) => rules = Applied(RowsShown, LowestActing)

\* C16, amended: the frame applies one action, that of the last rule (highest
\* index) whose action is not None
C16_LastActionApplied ==
    (pc = "shown" /\ RowsOnly) => rules = Applied(RowsShown, HighestActing)

\* C16, witness: two rules carried a move or a remove in one frame, and applying
\* the first gives another list than applying the last
C16_TwoActionsInOneFrame ==
    /\ pc = "shown" /\ RowsOnly
    /\ LowestActing # HighestActing
    /\ op.actions[LowestActing].kind \in {"MoveUp", "MoveDown", "Remove"}
    /\ op.actions[HighestActing].kind \in {"MoveUp", "MoveDown", "Remove"}
    /\ Applied(RowsShown, LowestActing) # Applied(RowsShown, HighestActing)

\* the frame had no input that touches the rule list: no load, no add, no row input
NoListInput == ~op.loaded /\ ~op.add /\ NoRowInput(op)

\* the id of the rule that row j of the frame showed
RowId(j) == IF op.loaded THEN j ELSE before.rules[j].id

\* a frame without input to the rule list leaves the list as it found it, whatever
\* actions the rules carried from the frame before
AppliedOnce ==
    (pc = "shown" /\ NoListInput) => Content(rules) = Content(before.rules)

Exchanged(items, i, j) ==
    [k \in 1..Len(items) |-> IF k = i THEN items[j] ELSE IF k = j THEN items[i] ELSE items[k]]

\* the rules with their ids, in a bag: what a list holds whatever its order
RuleBag(items) ==
    [r \in { items[k] : k \in 1..Len(items) } |->
        Cardinality({ k \in 1..Len(items) : items[k] = r })]

\* C18: a frame whose only input is MoveUp of the rule at position i exchanges it
\* with the rule above when it is not the first and leaves the list as it was when
\* it is; MoveDown exchanges it with the rule below when it is not the last and
\* leaves the list as it was when it is; either way the list keeps its rules, its
\* length, and last_rule_id and background_color are as before the frame.
C18_MoveExchangesNeighbours ==
    (pc = "shown" /\ (Lone(op, "MoveUp") \/ Lone(op, "MoveDown"))) =>
        /\ Lone(op, "MoveUp") =>
                Content(rules) =
                    IF KeptIndex(op) > 1
                    THEN Exchanged(Content(before.rules), KeptIndex(op), KeptIndex(op) - 1)
                    ELSE Content(before.rules)
        /\ Lone(op, "MoveDown") =>
                Content(rules) =
                    IF KeptIndex(op) < Len(before.rules)
                    THEN Exchanged(Content(before.rules), KeptIndex(op), KeptIndex(op) + 1)
                    ELSE Content(before.rules)
        /\ RuleBag(Content(rules)) = RuleBag(Content(before.rules))
        /\ Len(rules) = Len(before.rules)
        /\ last_rule_id = before.last_rule_id
        /\ background_color = before.background_color

\* C18, witness: MoveUp was clicked on the first of several rules
C18_FirstRuleMovedUp ==
    /\ pc = "shown"
    /\ Lone(op, "MoveUp")
    /\ KeptIndex(op) = 1
    /\ Len(before.rules) >= 2
    /\ Content(rules) = Content(before.rules)

\* C19: a frame whose only input is Remove of the rule at position i deletes that
\* rule and no other, keeps the others in their order with their ids, leaves
\* last_rule_id as it was and sets last_changed_at to the time of the frame.
C19_RemoveDeletesOne ==
    (pc = "shown" /\ Lone(op, "Remove")) =>
        /\ Len(rules) = Len(before.rules) - 1
        /\ \A k \in 1..Len(rules) :
                Content(rules)[k] =
                    Content(before.rules)[IF k < KeptIndex(op) THEN k ELSE k + 1]
        /\ Ids(rules) = Ids(before.rules) \ { before.rules[KeptIndex(op)].id }
        /\ last_rule_id = before.last_rule_id
        /\ last_changed_at = Some(now)

\* C19, witness: a rule that is not the last of the list was removed
C19_InnerRuleRemoved ==
    /\ pc = "shown"
    /\ Lone(op, "Remove")
    /\ KeptIndex(op) < Len(before.rules)
    /\ Len(rules) = Len(before.rules) - 1
    /\ last_changed_at = Some(now)

\* a block that gives no predicate: it holds no operator token (the loop over the
\* operators ends without a match), or the chosen token more than once, or a value
\* that from_str rejects (either `return None`)
Malformed(block) == ParseBlock(block).kind # "push"

\* C20, as stated: a filter text with a malformed block among its `&&`-separated
\* blocks fails to parse as a whole, so that the rule gets no predicate; the
\* predicates of the well-formed blocks alone are never the result
C20_MalformedBlockFailsWhole ==
    (output.stage = "parsed"
        /\ \E k \in 1..Len(Split(input.filter, S_andand)) :
                Malformed(Split(input.filter, S_andand)[k]))
    => output.parsed = None

-----------------------------------------------------------------------------
(* Properties of the conversion of filters and layers, under SpecConvert     *)

\* the filter is an array whose head is `all`
IsAll(filter) ==
    /\ IsSome(as_array(filter))
    /\ Unwrap(as_array(filter)) # << >>
    /\ FilterHead(Unwrap(as_array(filter))) = S_all

\* the predicate list of an operand, empty when the operand does not parse
OperandPredicates(sub) ==
    IF parse_filter_to_rules(sub).panic \/ ~IsSome(parse_filter_to_rules(sub).v)
    THEN << >>
    ELSE Unwrap(parse_filter_to_rules(sub).v)

\* the predicate lists of the operands k.. of an `all` filter, one after the other
RECURSIVE OperandsFrom(_, _)
OperandsFrom(filter_arr, k) ==
    IF k > Len(filter_arr) THEN << >>
    ELSE OperandPredicates(filter_arr[k]) \o OperandsFrom(filter_arr, k + 1)

\* C21, as stated: an `all` filter always parses, to the predicate lists of its
\* operands that parse, one after the other in operand order; an operand that does
\* not parse is skipped
C21_AllConcatenates ==
    output.stage = "converted" =>
        \A k \in 1..Len(input.style.layers) :
            (IsSome(input.style.layers[k].filter)
                /\ IsAll(Unwrap(input.style.layers[k].filter)))
            => parse_filter_to_rules(Unwrap(input.style.layers[k].filter)) =
                  Ok(Some(OperandsFrom(Unwrap(as_array(Unwrap(input.style.layers[k].filter))), 2)))

\* the filter is one predicate on a property whose name begins with `$`
IsDollar(filter) ==
    /\ IsSome(as_array(filter))
    /\ Len(Unwrap(as_array(filter))) >= 2
    /\ FilterHead(Unwrap(as_array(filter))) # S_all
    /\ IsSome(as_str(Unwrap(as_array(filter))[2]))
    /\ StartsWith(Unwrap(as_str(Unwrap(as_array(filter))[2])), << "$" >>)

\* the predicates of the operands k.. of an `all` filter that are not `$` predicates
RECURSIVE OthersFrom(_, _)
OthersFrom(filter_arr, k) ==
    IF k > Len(filter_arr) THEN << >>
    ELSE (IF IsDollar(filter_arr[k]) THEN << >> ELSE OperandPredicates(filter_arr[k]))
            \o OthersFrom(filter_arr, k + 1)

\* the filter holds a `$` predicate: it is one, or it is an `all` with one among
\* its operands
HoldsDollar(filter) ==
    \/ IsDollar(filter)
    \/ /\ IsAll(filter)
       /\ \E k \in 2..Len(Unwrap(as_array(filter))) : IsDollar(Unwrap(as_array(filter))[k])

\* the predicates of a filter holding a `$` predicate, that one left out
OtherPredicates(filter) ==
    IF IsDollar(filter) THEN << >> ELSE OthersFrom(Unwrap(as_array(filter)), 2)

\* C22, as stated: a layer that resolves to a symbol and whose filter holds a `$`
\* predicate, as an operand of `all` or as the whole filter, gives a rule with the
\* other predicates of the filter and no predicate on a `$` property
C22_DollarPredicateDropped ==
    Converted =>
        \A k \in 1..Len(input.style.layers) :
            (/\ ResolvesToSymbol(input.style.layers[k])
             /\ IsSome(input.style.layers[k].filter)
             /\ HoldsDollar(Unwrap(input.style.layers[k].filter)))
            => \E i \in 1..Len(output.result.v.rules) :
                  /\ output.result.v.rules[i].layer_name = input.style.layers[k].source_layer
                  /\ output.result.v.rules[i].properties =
                        OtherPredicates(Unwrap(input.style.layers[k].filter))
                  /\ \A j \in 1..Len(output.result.v.rules[i].properties) :
                        ~StartsWith(output.result.v.rules[i].properties[j].property_name,
                                    << "$" >>)

\* the layer kinds that give no rule
SkippedKinds == { "Raster", "Heatmap", "Hillshade", "Background" }

\* the symbol kind of a layer kind that gives a rule
SymbolKind(layer_type) ==
    CASE layer_type \in { "Fill", "FillExtrusion" } -> "Polygon"
      [] layer_type = "Line" -> "Line"
      [] layer_type \in { "Circle", "Symbol" } -> "Label"

\* the rule the claim expects of a layer: its source-layer and the symbol kind of
\* its layer kind
RuleOfKind(rule, layer) ==
    /\ IsSome(rule.layer_name)
    /\ rule.layer_name = layer.source_layer
    /\ rule.symbol # SymbolNone
    /\ rule.symbol.kind = SymbolKind(layer.layer_type)

PaintProperties == { "fill-color", "fill-opacity", "line-color", "line-width", "line-opacity" }

\* the value a property reduces to by its shape: the literal itself, the output of
\* the first stop of a `stops` object, the element at index 4 of an `interpolate`
\* array of length >= 5; nothing for every other shape
ReducedValue(paint, property) ==
    IF ~IsSome(Get(paint, property)) THEN None
    ELSE
        LET value == Unwrap(Get(paint, property)) IN
        CASE value.t \in { "string", "number" } -> Some(value)
          [] value.t = "object" ->
                IF /\ IsSome(Get(value, "stops"))
                   /\ IsSome(as_array(Unwrap(Get(value, "stops"))))
                   /\ Unwrap(as_array(Unwrap(Get(value, "stops")))) # << >>
                   /\ IsSome(as_array(Unwrap(as_array(Unwrap(Get(value, "stops"))))[1]))
                   /\ Len(Unwrap(as_array(Unwrap(as_array(Unwrap(Get(value, "stops"))))[1]))) >= 2
                THEN Some(Unwrap(as_array(Unwrap(as_array(Unwrap(Get(value, "stops"))))[1]))[2])
                ELSE None
          [] value.t = "array" ->
                IF Len(value.a) >= 5 /\ value.a[1] = JStr(S_interpolate)
                THEN Some(value.a[5])
                ELSE None
          [] OTHER -> None

\* the colour of the reduced value
ReducedColor(paint, property) ==
    IF IsSome(ReducedValue(paint, property))
          /\ IsSome(as_str(Unwrap(ReducedValue(paint, property))))
    THEN parse_color(Unwrap(as_str(Unwrap(ReducedValue(paint, property)))))
    ELSE Ok(None)

\* the number of the reduced value
ReducedNumber(paint, property) ==
    IF IsSome(ReducedValue(paint, property))
    THEN Ok(as_f64(Unwrap(ReducedValue(paint, property))))
    ELSE Ok(None)

\* C24, as stated: extract_color and extract_number give the colour and the number
\* of the value the property reduces to by its shape, the same shapes for both,
\* and no value for every other shape
C24_SameShapesForBoth ==
    output.stage = "converted" =>
        \A k \in 1..Len(input.style.layers) :
            IsSome(input.style.layers[k].paint) =>
                \A property \in PaintProperties :
                    /\ extract_color(Unwrap(input.style.layers[k].paint), property) =
                          ReducedColor(Unwrap(input.style.layers[k].paint), property)
                    /\ extract_number(Unwrap(input.style.layers[k].paint), property) =
                          ReducedNumber(Unwrap(input.style.layers[k].paint), property)

\* C25, as stated: every predicate of every rule the converter emits has a
\* property name that is not empty
C25_PropertyNamesNotEmpty ==
    Converted =>
        \A i \in 1..Len(output.result.v.rules) :
            \A j \in 1..Len(output.result.v.rules[i].properties) :
                output.result.v.rules[i].properties[j].property_name # << >>

-----------------------------------------------------------------------------
(* Properties of the colours with an alpha, under SpecColor                  *)

\* a * 255 rounded to the nearest integer, a in thousandths
RoundedAlpha(alpha) == (alpha * 255 + 500) \div 1000

\* C26, as stated: the colour parsed from rgba(r,g,b,a) and from hsla(h,s%,l%,a)
\* has the alpha channel round(a * 255)
C26_AlphaRounded ==
    output.stage = "alpha" =>
        /\ output.rgba =
              Ok(Some(<< 17 * input.colour.r, 17 * input.colour.g, 17 * input.colour.b,
                         RoundedAlpha(output.alpha) >>))
        /\ IsSome(HslaText(input.colour, output.alpha)) =>
              output.hsla =
                Ok(Some(<< 17 * input.colour.r, 17 * input.colour.g, 17 * input.colour.b,
                           RoundedAlpha(output.alpha) >>))

-----------------------------------------------------------------------------
(* Properties of the commit and of the pending change, under Spec            *)

\* C27: is_changed is false at the end of every app tick; the commit that finds
\* is_changed true hands the layer the style of the document and clears the flag
\* in that same tick, the layer's style changes in no other step, and the commit
\* leaves last_changed_at, the rules, last_rule_id and the background as they are
C27_CommitProtocol ==
    /\ [](pc = "idle" => ~is_changed)
    /\ [][pc = "shown" =>
            /\ pc' = "idle"
            /\ ~is_changed'
            /\ is_changed => vt_style' = Snapshot
            /\ ~is_changed => vt_style' = vt_style
            /\ UNCHANGED << last_changed_at, rules, last_rule_id, background_color >>]_vars
    /\ [][vt_style' # vt_style => (pc = "shown" /\ is_changed)]_vars

\* C27, witness: a tick ended whose frame reported a removal made in an earlier
\* frame; the flag is cleared and the layer holds the style of the document
C27_RemovalCommitted ==
    /\ pc = "idle"
    /\ due # {}
    /\ ~is_changed
    /\ last_changed_at = None
    /\ vt_style = Snapshot
    /\ Len(vt_style.rules) < Len(StyleWindow_new(CHOOSE initial \in InitialStyles : TRUE).rules)

-----------------------------------------------------------------------------
(* The converted style through the editor, under SpecConvert                 *)

\* C28, as stated: the style read back from a window created with a converted
\* style, or from a window the style was loaded into, is that style: the same
\* background and the same rules in the same order
C28_EditorLossless ==
    output.stage = "edited" =>
        /\ output.created = output.result.v
        /\ output.loaded = output.result.v

\* the instants at which a frame can arm the timer and another frame can still
\* come UPDATE_TIMEOUT later
EarlyInstants ==
    { t \in 0..(MaxTime - UPDATE_TIMEOUT) : t % (UPDATE_TIMEOUT \div 2) = 0 }

\* C29: no step disarms the timer (last_changed_at) without setting is_changed;
\* is_changed is set only by a frame that comes UPDATE_TIMEOUT or more after the
\* timer was armed and that does not arm it again, so not while changes come
\* less than UPDATE_TIMEOUT apart; and a timer armed at t leads to is_changed,
\* unless a later change arms it again
C29_PendingChangeReported ==
    /\ [][(IsSome(last_changed_at) /\ last_changed_at' = None) => is_changed']_vars
    /\ [][(is_changed' /\ ~is_changed) =>
            /\ IsSome(last_changed_at)
            /\ now' >= Unwrap(last_changed_at) + UPDATE_TIMEOUT
            /\ last_changed_at' = None]_vars
    /\ \A t \in EarlyInstants :
          (last_changed_at = Some(t)) ~>
              (is_changed \/ (IsSome(last_changed_at) /\ Unwrap(last_changed_at) > t))

\* C29, witness: the timer was armed by a removal, a frame without a change came
\* less than UPDATE_TIMEOUT later, and the change is still pending
C29_StillPending ==
    /\ pc = "shown"
    /\ IsSome(last_changed_at)
    /\ Unwrap(last_changed_at) < now
    /\ ~Changed([loaded |-> IF op.loaded THEN op.style ELSE None,
                  background |-> IF op.background THEN Some(background_color) ELSE None,
                  actions |-> op.actions])
    /\ ~is_changed
    /\ pending # {}
    /\ Len(rules) < Len(StyleWindow_new(CHOOSE initial \in InitialStyles : TRUE).rules)

\* C30, as stated: at the end of a tick with no change pending (the timer not
\* armed, is_changed false) the layer holds the style of the document
C30_AgreeAtRest ==
    (pc = "idle" /\ last_changed_at = None /\ ~is_changed) => vt_style = Snapshot

====
